---- MODULE Spec2Model ----
(***************************************************************************)
(* Model of the query / ingestion pipeline of the Internal Knowledge       *)
(* Assistant (backend/app): cache-aside question answering over a          *)
(* tenant-scoped vector index, document ingestion and deletion, and the    *)
(* request-scoped database session that commits or rolls back their work.  *)
(*                                                                         *)
(* Text is a sequence of one-character strings.  A vector is represented   *)
(* by the provider that produced it, its dimension and the text it was     *)
(* computed from; cosine similarity is given in hundredths.                *)
(***************************************************************************)
EXTENDS Integers, Sequences, FiniteSets, TLC

\* ------------------------------------------------------------------ bounds

\* Number of requests (ask, ingest, delete) started in one behaviour.
MaxRequests == 2

\* Length of the longest question the cache key is derived from on its own.
MaxKeyLen == 4

\* Number of chunks of the corpus the vector search is run on, on its own.
MaxChunks == 7

\* Length of the longest text chunk_text is applied to on its own.
MaxTextLen == 7

\* ------------------------------------------------------- program constants

TOP_K == 5
\* 0.3, in hundredths
SIMILARITY_THRESHOLD == 30
MAX_CHUNK_TOKENS == 500
\* Vector(384), the column type of document_chunks.embedding
COLUMN_DIMENSION == 384
\* the excerpt length of a source, c["content"][:300]
EXCERPT_CHARS == 300
\* the excerpt length the stub generation provider uses, c["content"][:200]
STUB_EXCERPT_CHARS == 200
\* context_chunks[:3] in the stub generation provider
STUB_EXCERPTS == 3
\* QueryRequest.question: min_length=3
MIN_QUESTION_LENGTH == 3

\* --------------------------------------------------------------------- text

None == [type |-> "None"]

WhiteSpace == {" ", "\n", "\t"}

SentenceEnd == {".", "!", "?"}

\* str.lower() on the characters the model uses
LowerChar(c) ==
  CASE c = "H" -> "h"
    [] c = "I" -> "i"
    [] c = "Y" -> "y"
    [] c = "O" -> "o"
    [] OTHER -> c

lower(s) == [i \in 1..Len(s) |-> LowerChar(s[i])]

RECURSIVE lstrip(_)
lstrip(s) ==
  IF s # <<>> /\ Head(s) \in WhiteSpace THEN lstrip(Tail(s)) ELSE s

RECURSIVE rstrip(_)
rstrip(s) ==
  IF s # <<>> /\ s[Len(s)] \in WhiteSpace
  THEN rstrip(SubSeq(s, 1, Len(s) - 1))
  ELSE s

\* str.strip()
strip(s) == rstrip(lstrip(s))

\* s[:n]
Prefix(s, n) == SubSeq(s, 1, IF Len(s) < n THEN Len(s) ELSE n)

\* len(s.split()): the number of maximal runs of non-whitespace characters
WordCount(s) ==
  Cardinality({i \in 1..Len(s) :
                 /\ s[i] \notin WhiteSpace
                 /\ (i = 1 \/ s[i - 1] \in WhiteSpace)})

\* the code of a character, for the digest below
CharCode(c) ==
  CASE c = "h" -> 1
    [] c = "i" -> 2
    [] c = "y" -> 3
    [] c = "o" -> 4
    [] c = "H" -> 5
    [] c = "I" -> 6
    [] c = "Y" -> 7
    [] c = "O" -> 8
    [] c = " " -> 9
    [] c = "\n" -> 10
    [] c = "\t" -> 11
    [] c = "." -> 12
    [] c = "!" -> 13
    [] c = "?" -> 14
    [] OTHER -> 15

\* hashlib.sha256(s.encode()): a digest that depends on every character and
\* its position and is collision-free on the texts of the model (a
\* positional encoding in base 16).
RECURSIVE sha256(_)
sha256(s) ==
  IF s = <<>> THEN 1 ELSE CharCode(Head(s)) + 16 * sha256(Tail(s))

\* --------------------------------------------------------------- cache key

\* CacheService._cache_key: f"ka:query:{tenant_id}:{q_hash}", the digest of
\* the stripped, lower-cased question.  A tenant id is a UUID string, so the
\* key splits unambiguously into its tenant and its digest.
\* (cache_key_untenanted is _cache_key with the tenant segment left out.)
cache_key_untenanted(tenant_id, question) ==
  [prefix |-> "ka:query", tenant |-> "", q_hash |-> sha256(lower(strip(question)))]

cache_key(tenant_id, question) ==
  LET normalised == lower(strip(question))
      q_hash == sha256(normalised)
  IN [prefix |-> "ka:query", tenant |-> tenant_id, q_hash |-> q_hash]

\* the keys redis.scan_iter(match=f"ka:query:{tenant_id}:*") yields
\* (scan_iter_any_tenant is the scan with the pattern "ka:query:*".)
scan_iter_any_tenant(store, tenant_id) ==
  {e \in store : e.key.prefix = "ka:query"}

scan_iter(store, tenant_id) ==
  {e \in store : e.key.prefix = "ka:query" /\ e.key.tenant = tenant_id}

\* ----------------------------------------------------------------- chunker

Max(a, b) == IF a > b THEN a ELSE b

Min(a, b) == IF a < b THEN a ELSE b

\* _estimate_tokens: max(1, int(len(text.split()) / 0.75))
estimate_tokens(text) == Max(1, (4 * WordCount(text)) \div 3)

RECURSIVE NewlineRun(_, _)
NewlineRun(s, i) ==
  IF i <= Len(s) /\ s[i] = "\n" THEN 1 + NewlineRun(s, i + 1) ELSE 0

\* re.split(r"\n{2,}", s), from position i with the piece cur in progress:
\* the piece runs to the leftmost run of two or more newlines, and the whole
\* run is the separator
RECURSIVE SplitParagraphs(_, _, _)
SplitParagraphs(s, i, cur) ==
  LET runs == {j \in i..Len(s) : NewlineRun(s, j) >= 2}
  IN IF runs = {} THEN <<cur \o SubSeq(s, i, Len(s))>>
     ELSE LET j == CHOOSE k \in runs : \A m \in runs : k <= m
          IN <<cur \o SubSeq(s, i, j - 1)>>
               \o SplitParagraphs(s, j + NewlineRun(s, j), <<>>)

\* paragraphs = [p.strip() for p in re.split(...) if p.strip()]
\* (Paragraphs_unfiltered is the list without its `if p.strip()`.)
Paragraphs_unfiltered(text) ==
  LET pieces == SplitParagraphs(strip(text), 1, <<>>)
  IN [i \in 1..Len(pieces) |-> strip(pieces[i])]

Paragraphs(text) ==
  LET pieces == SplitParagraphs(strip(text), 1, <<>>)
      stripped == [i \in 1..Len(pieces) |-> strip(pieces[i])]
  IN SelectSeq(stripped, LAMBDA p : p # <<>>)

\* "\n\n".join(parts)
RECURSIVE JoinParagraphs(_)
JoinParagraphs(parts) ==
  IF parts = <<>> THEN <<>>
  ELSE IF Len(parts) = 1 THEN Head(parts)
  ELSE Head(parts) \o <<"\n", "\n">> \o JoinParagraphs(Tail(parts))

\* re.split(r"(?<=[.!?])\s+", p)[-1]: what follows the last run of whitespace
\* that comes right after a sentence-ending character
\* (LastSentence_none is an overlap that is always empty; LastSentence_whole
\* carries the whole paragraph forward.)
LastSentence_none(p) == <<>>

LastSentence_whole(p) == p

LastSentence(p) ==
  LET ends == {e \in 1..Len(p) :
                 /\ p[e] \in WhiteSpace
                 /\ (e = Len(p) \/ p[e + 1] \notin WhiteSpace)
                 /\ \E j \in 1..(e - 1) :
                      /\ p[j] \in SentenceEnd
                      /\ \A m \in (j + 1)..e : p[m] \in WhiteSpace}
  IN IF ends = {} THEN p
     ELSE LET e == CHOOSE x \in ends : \A y \in ends : y <= x
          IN SubSeq(p, e + 1, Len(p))

\* the for loop of chunk_text over the paragraphs still to place
RECURSIVE ChunkLoop(_, _, _, _, _)
ChunkLoop(paragraphs, chunks, current, current_tokens, max_tokens) ==
  IF paragraphs = <<>>
  THEN IF current # <<>> THEN Append(chunks, JoinParagraphs(current)) ELSE chunks
  ELSE LET para == Head(paragraphs)
           para_tokens == estimate_tokens(para)
       IN IF current_tokens + para_tokens > max_tokens /\ current # <<>>
          THEN LET overlap == LastSentence(current[Len(current)])
                   next == IF overlap # <<>> THEN <<overlap, para>> ELSE <<para>>
               IN ChunkLoop(Tail(paragraphs),
                            Append(chunks, JoinParagraphs(current)),
                            next,
                            estimate_tokens(JoinParagraphs(next)),
                            max_tokens)
          ELSE ChunkLoop(Tail(paragraphs), chunks, Append(current, para),
                         current_tokens + para_tokens, max_tokens)

chunk_text(text, max_tokens) ==
  ChunkLoop(Paragraphs(text), <<>>, <<>>, 0, max_tokens)

\* ------------------------------------------------------------ the universe

\* X-Tenant-Id values of the active tenants
Tenants == {"tA", "tB"}

\* an X-Tenant-Id value that names no tenant, or an inactive one
UnknownTenant == "tX"

\* validate_tenant: the tenant exists and is active
\* (validate_tenant_any is the check that finds a tenant for every id.)
validate_tenant_any(tenant_id) == TRUE

validate_tenant(tenant_id) == tenant_id \in Tenants

\* the requests of a behaviour, numbered in the order they arrive; each has
\* its own request-scoped database session
Sessions == 1..MaxRequests

\* the connections of the engine's pool: so many sessions are open at a time
Pool == {"c1", "c2"}

\* the questions asked: "hi?" and " Hi? " (other case, surrounding whitespace)
Questions ==
  { <<"h", "i", "?">>,
    <<" ", "H", "i", "?", " ">> }

\* the bodies of POST /documents: "hi?" titled "FAQ", "hi." titled "LP"
FAQ == [title |-> <<"F", "A", "Q">>, content |-> <<"h", "i", "?">>]

LP == [title |-> <<"L", "P">>, content |-> <<"h", "i", ".">>]

\* the questions each tenant asks and the documents each tenant ingests
AskInputs ==
  {<<"tA", q>> : q \in Questions}
    \cup {<<"tB", <<"h", "i", "?">>>>, <<UnknownTenant, <<"h", "i", "?">>>>}

IngestInputs == {<<"tA", LP>>, <<"tB", FAQ>>}

\* a document id that names no document
NoDocument == 0

\* the id of the document a tenant may have ingested before the run starts
SeedDocument == 100

Str(x) == [type |-> "str", value |-> x]

VARIABLES
  settings,         \* Settings: the providers chosen at start-up
  redis,            \* cache_service.redis: "None" or "connected"
  store,            \* the entries of the Redis database: [key, value]
  documents,        \* committed rows of documents
  document_chunks,  \* committed rows of document_chunks
  ai_requests,      \* committed rows of ai_requests
  sess,             \* per session: the request it serves and its transaction
  nreq,             \* number of requests started so far
  probe             \* the arguments and results of a function applied on its own

vars ==
  <<settings, redis, store, documents, document_chunks, ai_requests, sess, nreq,
    probe>>

\* ---------------------------------------------------------------- embedding

\* StubEmbeddingProvider.embed: one vector per text, seeded from the text's
\* digest and L2-normalised; the vector is a function of the text alone.
\* (StubEmbeddingProvider_embed_batch_seeded seeds the generator from the
\* first text of the batch as well.)
StubEmbeddingProvider_embed_batch_seeded(texts) ==
  [i \in 1..Len(texts) |->
     [provider |-> "stub", dim |-> settings.embedding_dimension,
      of |-> texts[1] \o texts[i]]]

StubEmbeddingProvider_embed(texts) ==
  [i \in 1..Len(texts) |->
     [provider |-> "stub", dim |-> settings.embedding_dimension, of |-> texts[i]]]

\* OpenAIEmbeddingProvider.embed: what the service returns, of the dimension
\* of the configured model
OpenAIEmbeddingProvider_embed(texts) ==
  [i \in 1..Len(texts) |->
     [provider |-> "openai", dim |-> settings.embedding_model_dimension, of |-> texts[i]]]

\* the outcomes of `await embedder.embed(texts)`: the stub cannot fail, the
\* service call can raise
embed(texts) ==
  IF settings.embedding_provider = "openai"
  THEN {[ok |-> TRUE, vectors |-> OpenAIEmbeddingProvider_embed(texts)],
        [ok |-> FALSE, vectors |-> <<>>]}
  ELSE {[ok |-> TRUE, vectors |-> StubEmbeddingProvider_embed(texts)]}

\* what a text is about, as the embedding service sees it
Topic(text) ==
  IF \E i \in 1..Len(text) : text[i] \in {"h", "H"} THEN "hi" ELSE "other"

\* Cosine similarity of two vectors, in hundredths.  A stored vector in
\* general position is represented by its cosine to the query vector (cos).
\* Stub vectors are
\* independent pseudo-random unit vectors of dimension 384 unless the texts
\* are identical: their cosine is within a few hundredths of 0.  Vectors of
\* the embedding service are close when the texts are about the same thing.
cosine_similarity(u, v) ==
  IF "cos" \in DOMAIN u THEN u.cos
  ELSE IF u.of = v.of THEN 100
  ELSE IF u.provider = "stub"
       THEN ((sha256(u.of) + sha256(v.of)) % 21) - 10
       ELSE IF Topic(u.of) = Topic(v.of) THEN 80 ELSE 10

\* ---------------------------------------------------------------- retrieval

Range(f) == {f[i] : i \in DOMAIN f}

\* The rows of the search query before ORDER BY and LIMIT: document_chunks
\* joined with documents, restricted to the tenant and to a similarity above
\* the threshold.  (search_matches_any_tenant is the query without its
\* tenant_id condition.)
search_matches_any_tenant(docs, chunks, tenant_id, q_vec) ==
  { [chunk_id |-> p[1].id,
     content |-> p[1].content,
     document_title |-> p[2].title,
     similarity |-> cosine_similarity(p[1].embedding, q_vec)] :
    p \in { q \in chunks \X docs :
              /\ q[2].id = q[1].document_id
              /\ cosine_similarity(q[1].embedding, q_vec) > SIMILARITY_THRESHOLD } }

\* (search_matches_at_threshold is the query with >= :threshold.)
search_matches_at_threshold(docs, chunks, tenant_id, q_vec) ==
  { [chunk_id |-> p[1].id,
     content |-> p[1].content,
     document_title |-> p[2].title,
     similarity |-> cosine_similarity(p[1].embedding, q_vec)] :
    p \in { q \in chunks \X docs :
              /\ q[2].id = q[1].document_id
              /\ q[1].tenant_id = tenant_id
              /\ cosine_similarity(q[1].embedding, q_vec) >= SIMILARITY_THRESHOLD } }

search_matches(docs, chunks, tenant_id, q_vec) ==
  { [chunk_id |-> p[1].id,
     content |-> p[1].content,
     document_title |-> p[2].title,
     similarity |-> cosine_similarity(p[1].embedding, q_vec)] :
    p \in { q \in chunks \X docs :
              /\ q[2].id = q[1].document_id
              /\ q[1].tenant_id = tenant_id
              /\ cosine_similarity(q[1].embedding, q_vec) > SIMILARITY_THRESHOLD } }

\* The results the query can return: the matching rows in ascending order of
\* distance, cut to TOP_K.  Rows of equal distance come in any order.
search_results(docs, chunks, tenant_id, q_vec) ==
  LET M == search_matches(docs, chunks, tenant_id, q_vec)
      n == Min(Cardinality(M), TOP_K)
  IN { r \in [1..n -> M] :
         /\ \A i, j \in 1..n :
              i < j => r[i] # r[j] /\ r[i].similarity >= r[j].similarity
         /\ \A m \in M \ Range(r) : \A i \in 1..n : m.similarity <= r[i].similarity }

\* "different vector dimensions": the distance operator raises on a stored
\* vector whose dimension is not that of the query vector
dimension_conflict(chunks, tenant_id, q_vec) ==
  \E c \in chunks : c.tenant_id = tenant_id /\ c.embedding.dim # q_vec.dim

\* --------------------------------------------------------------- generation

NO_CONTEXT_REASON ==
  Str("No relevant context found in the knowledge base to answer this question.")

RECURSIVE JoinTitles(_)
JoinTitles(titles) ==
  IF titles = {} THEN <<>>
  ELSE LET t == CHOOSE x \in titles : TRUE
       IN IF titles = {t} THEN t
          ELSE t \o <<",", " ">> \o JoinTitles(titles \ {t})

RECURSIVE ExcerptWords(_)
ExcerptWords(excerpts) ==
  IF excerpts = <<>> THEN 0
  ELSE 1 + WordCount(Head(excerpts)) + ExcerptWords(Tail(excerpts))

\* len(answer_text.split()) of the stub's answer: the 13 words of its fixed
\* phrases, the parenthesised titles, and "- " plus each excerpt
stub_answer_words(titles, excerpts) ==
  13 + WordCount(<<"(">> \o JoinTitles(titles) \o <<")", ",">>)
     + ExcerptWords(excerpts)

\* StubLLMProvider.generate
StubLLMProvider_generate(question, context_chunks) ==
  IF context_chunks = <<>>
  THEN [answer |-> <<>>, refused |-> TRUE, refused_reason |-> NO_CONTEXT_REASON,
        prompt_tokens |-> 0, completion_tokens |-> 0, total_tokens |-> 0,
        model |-> "stub-model-v1"]
  ELSE LET source_titles ==
             {context_chunks[i].document_title : i \in DOMAIN context_chunks}
           excerpts ==
             [i \in 1..Min(Len(context_chunks), STUB_EXCERPTS) |->
                Prefix(context_chunks[i].content, STUB_EXCERPT_CHARS)]
           estimated_tokens ==
             stub_answer_words(source_titles, excerpts) + WordCount(question)
       IN [answer |-> [type |-> "stub_answer", source_titles |-> source_titles,
                       excerpts |-> excerpts],
           refused |-> FALSE, refused_reason |-> None,
           prompt_tokens |-> estimated_tokens \div 2,
           completion_tokens |-> estimated_tokens \div 2,
           total_tokens |-> estimated_tokens,
           model |-> "stub-model-v1"]

\* The message contents the chat-completion service returns: a JSON object
\* that answers, one that refuses with a reason, and one that refuses and
\* gives no reason.
Completions ==
  { [json |-> TRUE, answer |-> [type |-> "llm_answer"], refused |-> FALSE,
     refused_reason |-> None],
    [json |-> TRUE, answer |-> <<>>, refused |-> TRUE,
     refused_reason |-> Str("The context is insufficient.")],
    [json |-> TRUE, answer |-> <<>>, refused |-> TRUE, refused_reason |-> None] }

\* OpenAILLMProvider.generate on the message content raw: json.loads, with a
\* JSONDecodeError mapped to {"answer": raw, "confidence": "low"}
OpenAILLMProvider_parse(raw) ==
  LET parsed == IF raw.json THEN raw
                ELSE [json |-> TRUE, answer |-> [type |-> "raw_text"],
                      refused |-> FALSE, refused_reason |-> None]
  IN [answer |-> parsed.answer, refused |-> parsed.refused,
      refused_reason |-> parsed.refused_reason,
      prompt_tokens |-> 9, completion_tokens |-> 3, total_tokens |-> 12,
      model |-> settings.openai_model]

\* the outcomes of `await llm.generate(question, context_chunks)`
generate(question, context_chunks) ==
  IF settings.llm_provider = "openai"
  THEN {[ok |-> FALSE, result |-> None]}
       \cup {[ok |-> TRUE, result |-> OpenAILLMProvider_parse(raw)] : raw \in Completions}
  ELSE {[ok |-> TRUE, result |-> StubLLMProvider_generate(question, context_chunks)]}

\* ------------------------------------------------------------------ sessions

\* what a session has flushed and not yet committed
NoTx == [docs |-> {}, chunks |-> {}, requests |-> {}, deleted |-> {}]

Idle ==
  [pc |-> "idle", kind |-> "none", id |-> 0, tenant_id |-> "",
   question |-> <<>>, title |-> <<>>, content |-> <<>>, document_id |-> NoDocument,
   tx |-> NoTx, q_vec |-> None, embeddings |-> <<>>, context_chunks |-> <<>>,
   llm_result |-> None, response |-> None, served_from |-> 0,
   cache_fault |-> FALSE, deleted |-> FALSE, error |-> "none"]

\* the sessions that are open
Open == {s \in Sessions : sess[s].pc # "idle"}

\* Steps that read and write only the session's own request and transaction
\* (the calls to the embedding and generation providers, db.add and db.flush)
\* commute with every step of another session: they are taken as soon as
\* they are enabled, before another session moves.
Local(s) ==
  sess[s].pc \in {"embed", "generate", "audit", "store", "embed_chunks", "persist", "raised"}

Turn(s) == \A t \in Sessions \ {s} : ~Local(t)

\* request s arrives: it is the next one, and the pool has a connection for it
Arrives(s) ==
  /\ s = nreq + 1
  /\ nreq < MaxRequests
  /\ Cardinality(Open) < Cardinality(Pool)
  /\ Turn(s)

\* READ COMMITTED: a statement of session s sees the committed rows and the
\* rows s itself flushed, less what s deleted (chunks go with their document:
\* ON DELETE CASCADE)
visible_documents(s) ==
  {d \in documents \cup sess[s].tx.docs : d.id \notin sess[s].tx.deleted}

\* (visible_chunks_no_cascade leaves the chunks of a deleted document.)
visible_chunks_no_cascade(s) == document_chunks \cup sess[s].tx.chunks

visible_chunks(s) ==
  {c \in document_chunks \cup sess[s].tx.chunks :
     c.document_id \notin sess[s].tx.deleted}

\* the DocumentChunk rows of zip(text_chunks, embeddings), numbered from 0
\* (chunk_records_from_one numbers them from 1.)
chunk_records_from_one(doc_id, tenant_id, title, text_chunks, embeddings) ==
  { [id |-> [document_id |-> doc_id, n |-> i],
     document_id |-> doc_id, tenant_id |-> tenant_id, chunk_index |-> i,
     content |-> text_chunks[i], token_count |-> estimate_tokens(text_chunks[i]),
     embedding |-> embeddings[i], document_title |-> title] :
    i \in 1..Min(Len(text_chunks), Len(embeddings)) }

chunk_records(doc_id, tenant_id, title, text_chunks, embeddings) ==
  { [id |-> [document_id |-> doc_id, n |-> i],
     document_id |-> doc_id, tenant_id |-> tenant_id, chunk_index |-> i - 1,
     content |-> text_chunks[i], token_count |-> estimate_tokens(text_chunks[i]),
     embedding |-> embeddings[i], document_title |-> title] :
    i \in 1..Min(Len(text_chunks), Len(embeddings)) }

Init ==
  /\ settings \in
       { [embedding_provider |-> e[1], embedding_model_dimension |-> e[2],
          embedding_dimension |-> COLUMN_DIMENSION,
          llm_provider |-> l, openai_model |-> "gpt-4o-mini"] :
         e \in {<<"stub", 1536>>, <<"openai", 1536>>, <<"openai", 384>>},
         l \in {"stub", "openai"} }
  /\ redis \in {"None", "connected"}
  /\ redis = "None" =>
       settings.embedding_provider = "stub" /\ settings.llm_provider = "stub"
  /\ store = {}
  /\ \/ /\ documents = {}
        /\ document_chunks = {}
     \/ /\ embed(chunk_text(FAQ.content, MAX_CHUNK_TOKENS)) # {}
        /\ \E e \in embed(chunk_text(FAQ.content, MAX_CHUNK_TOKENS)) :
             /\ e.ok
             /\ \A i \in DOMAIN e.vectors : e.vectors[i].dim = COLUMN_DIMENSION
             /\ documents = {[id |-> SeedDocument, tenant_id |-> "tA",
                              title |-> FAQ.title, content |-> FAQ.content]}
             /\ document_chunks =
                  chunk_records(SeedDocument, "tA", FAQ.title,
                                chunk_text(FAQ.content, MAX_CHUNK_TOKENS), e.vectors)
  /\ ai_requests = {}
  /\ sess = [s \in Sessions |-> Idle]
  /\ nreq = 0
  /\ probe = None

\* an exception leaves the handler: it reaches get_db
\* (Raise_swallowed is the exception caught inside the handler, which returns.)
Raise_swallowed(s, why) ==
  sess' = [sess EXCEPT ![s].pc = "returned", ![s].error = why]

Raise(s, why) ==
  sess' = [sess EXCEPT ![s].pc = "raised", ![s].error = why]

\* get_tenant_id: a request whose X-Tenant-Id names no active tenant is
\* answered 404 by the dependency; the route's handler does not run
get_tenant_id_rejects(s, tenant_id) ==
  /\ Arrives(s)
  /\ ~validate_tenant(tenant_id)
  /\ nreq' = nreq + 1
  /\ sess' = [sess EXCEPT ![s] =
                [Idle EXCEPT !.pc = "raised", !.kind = "rejected", !.id = s,
                             !.tenant_id = tenant_id, !.error = "tenant"]]
  /\ UNCHANGED <<probe, settings, redis, store, documents, document_chunks, ai_requests>>

\* ----------------------------------------------------------- POST /ask

\* a request arrives and FastAPI opens its session (get_db)
start_ask(s, tenant_id, question) ==
  /\ Arrives(s)
  /\ validate_tenant(tenant_id)
  /\ nreq' = nreq + 1
  /\ sess' = [sess EXCEPT ![s] =
                [Idle EXCEPT !.pc = "cache_check", !.kind = "ask", !.id = s,
                             !.tenant_id = tenant_id, !.question = question]]
  /\ UNCHANGED <<probe, settings, redis, store, documents, document_chunks, ai_requests>>

\* CacheService.get_cached_answer: the payload stored under the key, or None
\* when the client is unset, the key is absent, the read raises or the value
\* does not decode
\* (get_cached_answer_any_tenant looks the digest up under any tenant's key;
\* get_cached_answer_unguarded is the read without its try/except.)
get_cached_answer_any_tenant(tenant_id, question, outcome) ==
  IF redis = "None" \/ outcome # "ok" THEN None
  ELSE LET key == cache_key(tenant_id, question)
           hits == {e \in store : e.key.q_hash = key.q_hash}
       IN IF hits = {} THEN None ELSE (CHOOSE e \in hits : TRUE).value

get_cached_answer_unguarded(tenant_id, question, outcome) ==
  IF redis = "None" THEN None
  ELSE LET key == cache_key(tenant_id, question)
           hits == {e \in store : e.key = key}
       IN IF hits = {} THEN None ELSE (CHOOSE e \in hits : TRUE).value

get_cached_answer(tenant_id, question, outcome) ==
  IF redis = "None" \/ outcome # "ok" THEN None
  ELSE LET key == cache_key(tenant_id, question)
           hits == {e \in store : e.key = key}
       IN IF hits = {} THEN None ELSE (CHOOSE e \in hits : TRUE).value

\* the AIRequest row of a cache hit: the cached answer, sources, status and
\* model, cached=True; refused_reason and the token counts keep their defaults
\* (hit_ai_request_unflagged is the row without cached=True.)
hit_ai_request_unflagged(r, cached) ==
  [id |-> r.id, tenant_id |-> r.tenant_id, question |-> r.question,
   answer |-> cached.answer, sources |-> cached.sources,
   status |-> cached.status, refused_reason |-> None,
   prompt_tokens |-> 0, completion_tokens |-> 0,
   total_tokens |-> 0, model_used |-> cached.model_used,
   cached |-> FALSE]

\* (hit_ai_request_reuses_id is the row written under the id of the request
\* that populated the cache.)
hit_ai_request_reuses_id(r, cached) ==
  [id |-> cached.request_id, tenant_id |-> r.tenant_id, question |-> r.question,
   answer |-> cached.answer, sources |-> cached.sources,
   status |-> cached.status, refused_reason |-> None,
   prompt_tokens |-> 0, completion_tokens |-> 0,
   total_tokens |-> 0, model_used |-> cached.model_used,
   cached |-> TRUE]

hit_ai_request(r, cached) ==
  [id |-> r.id, tenant_id |-> r.tenant_id, question |-> r.question,
   answer |-> cached.answer, sources |-> cached.sources,
   status |-> cached.status, refused_reason |-> None,
   prompt_tokens |-> 0, completion_tokens |-> 0,
   total_tokens |-> 0, model_used |-> cached.model_used,
   cached |-> TRUE]

\* the payload returned on a hit: the stored one with request_id and cached
\* overwritten (and latency_ms, which the model leaves out)
\* (hit_response_as_stored is the stored payload returned as it is.)
hit_response_as_stored(cached, ai_req) == cached

hit_response(cached, ai_req) ==
  [cached EXCEPT !.request_id = ai_req.id, !.cached = TRUE]

\* ask_question, step 1: the cache check; on a hit the audit row and return
ask_cache_check(s) ==
  /\ Turn(s)
  /\ sess[s].pc = "cache_check"
  /\ \E outcome \in {"ok", "error", "undecodable"} :
       LET r == sess[s]
           cached == get_cached_answer(r.tenant_id, r.question, outcome)
           fault == redis # "None" /\ outcome # "ok"
       IN IF cached # None
          THEN LET ai_req == hit_ai_request(r, cached)
               IN sess' = [sess EXCEPT
                             ![s].pc = "returned",
                             ![s].cache_fault = fault,
                             ![s].tx.requests = @ \cup {ai_req},
                             ![s].served_from = cached.request_id,
                             ![s].response = hit_response(cached, ai_req)]
          ELSE sess' = [sess EXCEPT ![s].pc = "embed", ![s].cache_fault = fault]
  /\ UNCHANGED <<probe, settings, redis, store, documents, document_chunks, ai_requests, nreq>>

\* step 2: embed the question
ask_embed(s) ==
  /\ Turn(s)
  /\ sess[s].pc = "embed"
  /\ \E e \in embed(<<sess[s].question>>) :
       IF e.ok
       THEN sess' = [sess EXCEPT ![s].pc = "retrieve", ![s].q_vec = e.vectors[1]]
       ELSE Raise(s, "embedding")
  /\ UNCHANGED <<probe, settings, redis, store, documents, document_chunks, ai_requests, nreq>>

\* step 3: the vector search
ask_retrieve(s) ==
  /\ Turn(s)
  /\ sess[s].pc = "retrieve"
  /\ LET r == sess[s]
     IN \/ /\ ~dimension_conflict(visible_chunks(s), r.tenant_id, r.q_vec)
           /\ \E rows \in search_results(visible_documents(s), visible_chunks(s),
                                         r.tenant_id, r.q_vec) :
                sess' = [sess EXCEPT ![s].pc = "generate", ![s].context_chunks = rows]
        \/ /\ dimension_conflict(visible_chunks(s), r.tenant_id, r.q_vec)
           /\ Raise(s, "retrieval")
  /\ UNCHANGED <<probe, settings, redis, store, documents, document_chunks, ai_requests, nreq>>

\* step 4: generation
ask_generate(s) ==
  /\ Turn(s)
  /\ sess[s].pc = "generate"
  /\ \E g \in generate(sess[s].question, sess[s].context_chunks) :
       IF g.ok
       THEN sess' = [sess EXCEPT ![s].pc = "audit", ![s].llm_result = g.result]
       ELSE Raise(s, "generation")
  /\ UNCHANGED <<probe, settings, redis, store, documents, document_chunks, ai_requests, nreq>>

\* sources: one entry per retrieved chunk, in retrieval order
\* (build_sources_untruncated takes the whole content as the excerpt.)
build_sources_untruncated(context_chunks) ==
  [i \in DOMAIN context_chunks |->
     [chunk_id |-> context_chunks[i].chunk_id,
      document_title |-> context_chunks[i].document_title,
      relevance_score |-> context_chunks[i].similarity,
      excerpt |-> context_chunks[i].content]]

build_sources(context_chunks) ==
  [i \in DOMAIN context_chunks |->
     [chunk_id |-> context_chunks[i].chunk_id,
      document_title |-> context_chunks[i].document_title,
      relevance_score |-> context_chunks[i].similarity,
      excerpt |-> Prefix(context_chunks[i].content, EXCERPT_CHARS)]]

\* `if status == "completed":` whether ask_question caches a response
should_cache_always(response_data) == TRUE

should_cache(response_data) == response_data.status = "completed"

\* the AIRequest row of the miss path: the answer is None when refused
\* (miss_ai_request_keeps_answer stores the provider's answer of a refusal.)
miss_ai_request_keeps_answer(r, llm_result, sources, status) ==
  [id |-> r.id, tenant_id |-> r.tenant_id, question |-> r.question,
   answer |-> llm_result.answer,
   sources |-> sources, status |-> status,
   refused_reason |-> llm_result.refused_reason,
   prompt_tokens |-> llm_result.prompt_tokens,
   completion_tokens |-> llm_result.completion_tokens,
   total_tokens |-> llm_result.total_tokens,
   model_used |-> llm_result.model, cached |-> FALSE]

miss_ai_request(r, llm_result, sources, status) ==
  [id |-> r.id, tenant_id |-> r.tenant_id, question |-> r.question,
   answer |-> IF ~llm_result.refused THEN llm_result.answer ELSE None,
   sources |-> sources, status |-> status,
   refused_reason |-> llm_result.refused_reason,
   prompt_tokens |-> llm_result.prompt_tokens,
   completion_tokens |-> llm_result.completion_tokens,
   total_tokens |-> llm_result.total_tokens,
   model_used |-> llm_result.model, cached |-> FALSE]

\* steps 5 and 6: the sources, the audit row (db.add, db.flush) and the
\* response payload
\* (ask_audit_unflushed builds the response and leaves the audit row out.)
ask_audit_unflushed(s) ==
  /\ Turn(s)
  /\ sess[s].pc = "audit"
  /\ LET r == sess[s]
         llm_result == r.llm_result
         status == IF llm_result.refused THEN "refused" ELSE "completed"
     IN sess' = [sess EXCEPT
                   ![s].pc = IF status = "completed" THEN "cache_write" ELSE "returned",
                   ![s].response =
                     [request_id |-> r.id, question |-> r.question,
                      answer |-> IF llm_result.answer \in {None, <<>>}
                                 THEN <<>> ELSE llm_result.answer,
                      sources |-> build_sources(r.context_chunks), status |-> status,
                      refused_reason |-> llm_result.refused_reason, cached |-> FALSE,
                      model_used |-> llm_result.model,
                      token_usage |-> [prompt_tokens |-> llm_result.prompt_tokens,
                                       completion_tokens |-> llm_result.completion_tokens,
                                       total_tokens |-> llm_result.total_tokens]]]
  /\ UNCHANGED <<probe, settings, redis, store, documents, document_chunks, ai_requests, nreq>>

ask_audit(s) ==
  /\ Turn(s)
  /\ sess[s].pc = "audit"
  /\ LET r == sess[s]
         llm_result == r.llm_result
         sources == build_sources(r.context_chunks)
         status == IF llm_result.refused THEN "refused" ELSE "completed"
         ai_req == miss_ai_request(r, llm_result, sources, status)
         response_data ==
           [request_id |-> ai_req.id, question |-> r.question,
            answer |-> IF llm_result.answer \in {None, <<>>}
                       THEN <<>> ELSE llm_result.answer,
            sources |-> sources, status |-> status,
            refused_reason |-> llm_result.refused_reason, cached |-> FALSE,
            model_used |-> llm_result.model,
            token_usage |-> [prompt_tokens |-> llm_result.prompt_tokens,
                             completion_tokens |-> llm_result.completion_tokens,
                             total_tokens |-> llm_result.total_tokens]]
     IN sess' = [sess EXCEPT
                   ![s].pc = IF should_cache(response_data)
                             THEN "cache_write" ELSE "returned",
                   ![s].tx.requests = @ \cup {ai_req},
                   ![s].response = response_data]
  /\ UNCHANGED <<probe, settings, redis, store, documents, document_chunks, ai_requests, nreq>>

\* CacheService.set_cached_answer: SETEX of the payload under the key; nothing
\* when the client is unset or the write raises
\* (set_cached_answer_if_absent writes only a key that is not set: SET NX.)
set_cached_answer_if_absent(tenant_id, question, answer_data, outcome) ==
  IF redis = "None" \/ outcome # "ok" THEN store
  ELSE LET key == cache_key(tenant_id, question)
       IN IF \E e \in store : e.key = key THEN store
          ELSE store \cup {[key |-> key, value |-> answer_data]}

set_cached_answer(tenant_id, question, answer_data, outcome) ==
  IF redis = "None" \/ outcome # "ok" THEN store
  ELSE LET key == cache_key(tenant_id, question)
       IN {e \in store : e.key # key} \cup {[key |-> key, value |-> answer_data]}

\* step 7: cache the completed response, and return it
ask_cache_write(s) ==
  /\ Turn(s)
  /\ sess[s].pc = "cache_write"
  /\ \E outcome \in {"ok", "error"} :
       LET r == sess[s]
       IN /\ store' = set_cached_answer(r.tenant_id, r.question, r.response, outcome)
          /\ sess' = [sess EXCEPT
                        ![s].pc = "returned",
                        ![s].cache_fault = @ \/ (redis # "None" /\ outcome # "ok")]
  /\ UNCHANGED <<probe, settings, redis, documents, document_chunks, ai_requests, nreq>>

\* ------------------------------------------------------- POST /documents

start_ingest(s, tenant_id, doc) ==
  /\ Arrives(s)
  /\ validate_tenant(tenant_id)
  /\ nreq' = nreq + 1
  /\ sess' = [sess EXCEPT ![s] =
                [Idle EXCEPT !.pc = "store", !.kind = "ingest", !.id = s,
                             !.tenant_id = tenant_id, !.title = doc.title,
                             !.content = doc.content]]
  /\ UNCHANGED <<probe, settings, redis, store, documents, document_chunks, ai_requests>>

\* ingest_document, step 1: db.add(doc), db.flush(): the document row, with a
\* fresh id, in the session's transaction
ingest_store(s) ==
  /\ Turn(s)
  /\ sess[s].pc = "store"
  /\ LET r == sess[s]
         doc == [id |-> r.id, tenant_id |-> r.tenant_id, title |-> r.title,
                 content |-> r.content]
     IN sess' = [sess EXCEPT ![s].pc = "embed_chunks", ![s].document_id = doc.id,
                             ![s].tx.docs = @ \cup {doc}]
  /\ UNCHANGED <<probe, settings, redis, store, documents, document_chunks, ai_requests, nreq>>

\* steps 2 and 3: chunk the content and embed all the chunks in one batch
ingest_embed(s) ==
  /\ Turn(s)
  /\ sess[s].pc = "embed_chunks"
  /\ \E e \in embed(chunk_text(sess[s].content, MAX_CHUNK_TOKENS)) :
       IF e.ok
       THEN sess' = [sess EXCEPT ![s].pc = "persist", ![s].embeddings = e.vectors]
       ELSE Raise(s, "embedding")
  /\ UNCHANGED <<probe, settings, redis, store, documents, document_chunks, ai_requests, nreq>>

\* step 4: db.add(chunk) for every chunk, db.flush(); the INSERT raises on a
\* vector that is not of the column's dimension
\* (ingest_persist_unchecked is the flush into a column of no fixed dimension.)
ingest_persist_unchecked(s) ==
  /\ Turn(s)
  /\ sess[s].pc = "persist"
  /\ LET r == sess[s]
         rows == chunk_records(r.document_id, r.tenant_id, r.title,
                               chunk_text(r.content, MAX_CHUNK_TOKENS), r.embeddings)
     IN sess' = [sess EXCEPT ![s].pc = "invalidate", ![s].tx.chunks = @ \cup rows]
  /\ UNCHANGED <<probe, settings, redis, store, documents, document_chunks, ai_requests, nreq>>

ingest_persist(s) ==
  /\ Turn(s)
  /\ sess[s].pc = "persist"
  /\ LET r == sess[s]
         rows == chunk_records(r.document_id, r.tenant_id, r.title,
                               chunk_text(r.content, MAX_CHUNK_TOKENS), r.embeddings)
     IN IF \E c \in rows : c.embedding.dim # COLUMN_DIMENSION
        THEN Raise(s, "persistence")
        ELSE sess' = [sess EXCEPT ![s].pc = "invalidate", ![s].tx.chunks = @ \cup rows]
  /\ UNCHANGED <<probe, settings, redis, store, documents, document_chunks, ai_requests, nreq>>

\* CacheService.invalidate_tenant: delete every key of the tenant; 0 when the
\* client is unset.  The entries left in the store.
invalidate_tenant_noop(tenant_id) == store

invalidate_tenant(tenant_id) ==
  IF redis = "None" THEN store ELSE store \ scan_iter(store, tenant_id)

\* `await cache_service.invalidate_tenant(...)` in a handler: it returns, or
\* the Redis call raises and the exception leaves the handler
Invalidate(s, outcome) ==
  IF redis # "None" /\ outcome = "error"
  THEN /\ Raise(s, "cache")
       /\ store' = store
  ELSE /\ store' = invalidate_tenant(sess[s].tenant_id)
       /\ sess' = [sess EXCEPT ![s].pc = "returned"]

\* step 5: invalidate the tenant's cached answers, and return
ingest_invalidate(s) ==
  /\ Turn(s)
  /\ sess[s].pc = "invalidate"
  /\ sess[s].kind = "ingest"
  /\ \E outcome \in {"ok", "error"} : Invalidate(s, outcome)
  /\ UNCHANGED <<probe, settings, redis, documents, document_chunks, ai_requests, nreq>>

\* --------------------------------------------- DELETE /documents/{id}

start_delete(s, tenant_id, document_id) ==
  /\ Arrives(s)
  /\ validate_tenant(tenant_id)
  /\ nreq' = nreq + 1
  /\ sess' = [sess EXCEPT ![s] =
                [Idle EXCEPT !.pc = "execute", !.kind = "delete", !.id = s,
                             !.tenant_id = tenant_id, !.document_id = document_id]]
  /\ UNCHANGED <<probe, settings, redis, store, documents, document_chunks, ai_requests>>

\* delete_document, the DELETE statement: the rows of the id and the tenant.
\* It waits while another open transaction has deleted the same row.
delete_execute(s) ==
  /\ Turn(s)
  /\ sess[s].pc = "execute"
  /\ \A t \in Sessions \ {s} : sess[s].document_id \notin sess[t].tx.deleted
  /\ LET r == sess[s]
         rows == {d \in visible_documents(s) :
                    d.id = r.document_id /\ d.tenant_id = r.tenant_id}
     IN IF Cardinality(rows) > 0
        THEN sess' = [sess EXCEPT ![s].pc = "invalidate", ![s].deleted = TRUE,
                                  ![s].tx.deleted = @ \cup {r.document_id}]
        ELSE sess' = [sess EXCEPT ![s].pc = "returned", ![s].deleted = FALSE]
  /\ UNCHANGED <<probe, settings, redis, store, documents, document_chunks, ai_requests, nreq>>

\* delete_document, after a row was deleted: invalidate, and return True
delete_invalidate(s) ==
  /\ Turn(s)
  /\ sess[s].pc = "invalidate"
  /\ sess[s].kind = "delete"
  /\ \E outcome \in {"ok", "error"} : Invalidate(s, outcome)
  /\ UNCHANGED <<probe, settings, redis, documents, document_chunks, ai_requests, nreq>>

\* ------------------------------------------------------- get_db, Redis

\* the route raises 404 when delete_document returned False
RouteRaises(s) ==
  sess[s].kind = "delete" /\ sess[s].pc = "returned" /\ ~sess[s].deleted

\* get_db after the handler returned: session.commit().  The flushed rows
\* become visible to every session at once.
get_db_commit(s) ==
  /\ Turn(s)
  /\ sess[s].pc = "returned"
  /\ ~RouteRaises(s)
  /\ LET tx == sess[s].tx
     IN /\ documents' = {d \in documents \cup tx.docs : d.id \notin tx.deleted}
        /\ document_chunks' =
             {c \in document_chunks \cup tx.chunks : c.document_id \notin tx.deleted}
        /\ ai_requests' = ai_requests \cup tx.requests
  /\ sess' = [sess EXCEPT ![s] = Idle]
  /\ UNCHANGED <<probe, settings, redis, store, nreq>>

\* session.rollback(): the committed rows of a table after the session's
\* flushed rows are discarded
\* (rollback_keeps_flushed leaves the flushed rows in the table.)
rollback_keeps_flushed(committed, flushed) == committed \cup flushed

rollback(committed, flushed) == committed

\* get_db on an exception: session.rollback(), and the exception goes on
get_db_rollback(s) ==
  /\ Turn(s)
  /\ sess[s].pc = "raised" \/ RouteRaises(s)
  /\ documents' = rollback(documents, sess[s].tx.docs)
  /\ document_chunks' = rollback(document_chunks, sess[s].tx.chunks)
  /\ ai_requests' = rollback(ai_requests, sess[s].tx.requests)
  /\ sess' = [sess EXCEPT ![s] = Idle]
  /\ UNCHANGED <<probe, settings, redis, store, nreq>>

\* Redis drops an entry whose time to live (cache_ttl_seconds) has run out
expire(e) ==
  /\ \A t \in Sessions : ~Local(t)
  /\ e \in store
  /\ store' = store \ {e}
  /\ UNCHANGED <<probe, settings, redis, documents, document_chunks, ai_requests, sess, nreq>>

Next ==
  \/ \E s \in Sessions, t \in Tenants \cup {UnknownTenant} : get_tenant_id_rejects(s, t)
  \/ \E s \in Sessions, a \in AskInputs : start_ask(s, a[1], a[2])
  \/ \E s \in Sessions : ask_cache_check(s)
  \/ \E s \in Sessions : ask_embed(s)
  \/ \E s \in Sessions : ask_retrieve(s)
  \/ \E s \in Sessions : ask_generate(s)
  \/ \E s \in Sessions : ask_audit(s)
  \/ \E s \in Sessions : ask_cache_write(s)
  \/ \E s \in Sessions, i \in IngestInputs : start_ingest(s, i[1], i[2])
  \/ \E s \in Sessions : ingest_store(s)
  \/ \E s \in Sessions : ingest_embed(s)
  \/ \E s \in Sessions : ingest_persist(s)
  \/ \E s \in Sessions : ingest_invalidate(s)
  \/ \E s \in Sessions, t \in Tenants,
        d \in {x.id : x \in documents} \cup {NoDocument} : start_delete(s, t, d)
  \/ \E s \in Sessions : delete_execute(s)
  \/ \E s \in Sessions : delete_invalidate(s)
  \/ \E s \in Sessions : get_db_commit(s)
  \/ \E s \in Sessions : get_db_rollback(s)
  \/ \E e \in store : expire(e)

Spec == Init /\ [][Next]_vars

\* ------------------------------------------- one request at a time

\* a sequential execution: a request arrives only when no request is open
SequentialNext == Next /\ (nreq' # nreq => Open = {})

SpecSequential == Init /\ [][SequentialNext]_vars

\* ------------------------------------------- the cache key on its own

\* the characters of the questions: a letter in both cases, and a blank
KeyAlphabet == {"h", "H", " "}

KeyQuestions ==
  UNION {[1..n -> KeyAlphabet] : n \in MIN_QUESTION_LENGTH..MaxKeyLen}

\* two calls of CacheService._cache_key, on any two (tenant id, question)
KeyInit ==
  /\ settings = [embedding_provider |-> "stub", embedding_model_dimension |-> 1536,
                 embedding_dimension |-> COLUMN_DIMENSION,
                 llm_provider |-> "stub", openai_model |-> "gpt-4o-mini"]
  /\ redis = "None"
  /\ store = {}
  /\ documents = {}
  /\ document_chunks = {}
  /\ ai_requests = {}
  /\ sess = [s \in Sessions |-> Idle]
  /\ nreq = 0
  /\ \E ta, tb \in Tenants, qa, qb \in KeyQuestions :
       probe = [tenant_a |-> ta, question_a |-> qa, tenant_b |-> tb,
                question_b |-> qb, derived |-> FALSE, key_a |-> None, key_b |-> None]

derive_keys ==
  /\ ~probe.derived
  /\ probe' = [probe EXCEPT !.derived = TRUE,
                            !.key_a = cache_key(probe.tenant_a, probe.question_a),
                            !.key_b = cache_key(probe.tenant_b, probe.question_b)]
  /\ UNCHANGED <<settings, redis, store, documents, document_chunks, ai_requests,
                 sess, nreq>>

KeyNext == derive_keys

SpecKey == KeyInit /\ [][KeyNext]_vars

\* --------------------------------------- the vector search on its own

\* the state of the application at rest, with nothing stored
Quiescent ==
  /\ settings = [embedding_provider |-> "stub", embedding_model_dimension |-> 1536,
                 embedding_dimension |-> COLUMN_DIMENSION,
                 llm_provider |-> "stub", openai_model |-> "gpt-4o-mini"]
  /\ redis = "None"
  /\ store = {}
  /\ documents = {}
  /\ document_chunks = {}
  /\ ai_requests = {}
  /\ sess = [s \in Sessions |-> Idle]
  /\ nreq = 0

\* one document of each tenant
SearchDocuments ==
  { [id |-> 1, tenant_id |-> "tA", title |-> FAQ.title, content |-> FAQ.content],
    [id |-> 2, tenant_id |-> "tB", title |-> FAQ.title, content |-> FAQ.content] }

\* the similarities to the query of the first chunks, which are tenant tA's
BaseSimilarities == <<50, 45, 40, 35>>

\* the similarities of the other chunks: the threshold itself, one that ties
\* with a chunk above, and the highest
FreeSimilarities == {SIMILARITY_THRESHOLD, 40, 60}

\* chunk n of the corpus: a row of document_chunks of the tenant's document
SearchChunk(n, tenant_id, cos) ==
  [id |-> [document_id |-> IF tenant_id = "tA" THEN 1 ELSE 2, n |-> n],
   document_id |-> IF tenant_id = "tA" THEN 1 ELSE 2,
   tenant_id |-> tenant_id, chunk_index |-> n - 1,
   content |-> FAQ.content, token_count |-> estimate_tokens(FAQ.content),
   embedding |-> [provider |-> "general", dim |-> COLUMN_DIMENSION,
                  of |-> FAQ.content, cos |-> cos],
   document_title |-> FAQ.title]

\* the corpora: the first chunks fixed, each other chunk of either tenant and
\* with any of the free similarities
SearchCorpora ==
  LET base == 1..Len(BaseSimilarities)
      free == (Len(BaseSimilarities) + 1)..MaxChunks
  IN { {SearchChunk(n, "tA", BaseSimilarities[n]) : n \in base}
         \cup {SearchChunk(n, f[n][1], f[n][2]) : n \in free} :
       f \in [free -> Tenants \X FreeSimilarities] }

SearchInit ==
  /\ Quiescent
  /\ \E corpus \in SearchCorpora, t \in Tenants :
       probe = [docs |-> SearchDocuments, chunks |-> corpus, tenant_id |-> t,
                q_vec |-> [provider |-> "general", dim |-> COLUMN_DIMENSION,
                           of |-> <<"h", "i", "?">>],
                searched |-> FALSE, rows |-> <<>>]

\* the search statement of ask_question, executed on the corpus
execute_search ==
  /\ ~probe.searched
  /\ \E rows \in search_results(probe.docs, probe.chunks, probe.tenant_id, probe.q_vec) :
       probe' = [probe EXCEPT !.searched = TRUE, !.rows = rows]
  /\ UNCHANGED <<settings, redis, store, documents, document_chunks, ai_requests,
                 sess, nreq>>

SearchNext == execute_search

SpecSearch == SearchInit /\ [][SearchNext]_vars

\* --------------------------------------------- chunk_text on its own

\* the characters of the texts: a letter, a sentence end, a blank, a newline
ChunkAlphabet == {"a", ".", " ", "\n"}

ChunkTexts == UNION {[1..n -> ChunkAlphabet] : n \in 0..MaxTextLen}

\* a budget of one token
TightBudget == 1

\* the values of max_tokens: budgets that short texts exceed, and the default
ChunkBudgets == {TightBudget, TightBudget + 1, MAX_CHUNK_TOKENS}

ChunkInit ==
  /\ Quiescent
  /\ \E text \in ChunkTexts, max_tokens \in ChunkBudgets :
       probe = [text |-> text, max_tokens |-> max_tokens, chunked |-> FALSE,
                chunks |-> <<>>]

apply_chunk_text ==
  /\ ~probe.chunked
  /\ probe' = [probe EXCEPT !.chunked = TRUE,
                            !.chunks = chunk_text(probe.text, probe.max_tokens)]
  /\ UNCHANGED <<settings, redis, store, documents, document_chunks, ai_requests,
                 sess, nreq>>

ChunkNext == apply_chunk_text

SpecChunk == ChunkInit /\ [][ChunkNext]_vars

\* ------------------------------- the deterministic embedding on its own

\* the longest batch of texts embedded in one call
MaxBatch == 2

\* the texts embedded: a question, the same in another case, and a chunk
EmbedTexts == Questions \cup {LP.content}

EmbedBatches == UNION {[1..n -> EmbedTexts] : n \in 0..MaxBatch}

EmbedInit ==
  /\ Quiescent
  /\ \E a, b \in EmbedBatches :
       probe = [texts |-> a, texts_again |-> b, embedded |-> FALSE,
                vectors |-> <<>>, vectors_again |-> <<>>]

\* two calls of StubEmbeddingProvider.embed
embed_twice ==
  /\ ~probe.embedded
  /\ probe' = [probe EXCEPT
                 !.embedded = TRUE,
                 !.vectors = StubEmbeddingProvider_embed(probe.texts),
                 !.vectors_again = StubEmbeddingProvider_embed(probe.texts_again)]
  /\ UNCHANGED <<settings, redis, store, documents, document_chunks, ai_requests,
                 sess, nreq>>

EmbedNext == embed_twice

SpecEmbed == EmbedInit /\ [][EmbedNext]_vars

\* ------------------------- the miss path from the retrieved rows onwards

\* a chunk content of n characters: a's up to the excerpt length, b's beyond
LongContent(n) == [i \in 1..n |-> IF i <= EXCERPT_CHARS THEN "a" ELSE "b"]

\* the contents of the retrieved chunks: short, of exactly the excerpt
\* length, and one character longer
RowContents ==
  {FAQ.content, LongContent(EXCERPT_CHARS), LongContent(EXCERPT_CHARS + 1)}

\* the results of the search statement: up to TOP_K rows, nearest first
RetrievedRows ==
  UNION { { [i \in 1..n |->
               [chunk_id |-> [document_id |-> SeedDocument, n |-> TOP_K + 1 - i],
                content |-> c[i], document_title |-> FAQ.title,
                similarity |-> 100 - 10 * i]] :
            c \in [1..n -> RowContents] } :
          n \in 0..TOP_K }

SourcesInit ==
  /\ Quiescent
  /\ \E rows \in RetrievedRows :
       probe = [rows |-> rows, question |-> <<"h", "i", "?">>, built |-> FALSE,
                context_chunks |-> <<>>, llm_result |-> None, sources |-> <<>>,
                ai_req |-> None, response_sources |-> <<>>]

\* ask_question from the rows of the search to the response: the context
\* list, the generation call, the sources, the audit row
build_response ==
  /\ ~probe.built
  /\ LET context_chunks == probe.rows
         llm_result == (CHOOSE g \in generate(probe.question, context_chunks) : g.ok).result
         sources == build_sources(context_chunks)
         status == IF llm_result.refused THEN "refused" ELSE "completed"
         ai_req == miss_ai_request([id |-> 1, tenant_id |-> "tA",
                                    question |-> probe.question],
                                   llm_result, sources, status)
     IN probe' = [probe EXCEPT !.built = TRUE,
                               !.context_chunks = context_chunks,
                               !.llm_result = llm_result,
                               !.sources = sources,
                               !.ai_req = ai_req,
                               !.response_sources = sources]
  /\ UNCHANGED <<settings, redis, store, documents, document_chunks, ai_requests,
                 sess, nreq>>

SourcesNext == build_response

SpecSources == SourcesInit /\ [][SourcesNext]_vars

\* ------------------------------- ingestion and deletion of long documents

\* the number of words of a paragraph that alone exceeds MAX_CHUNK_TOKENS
WordsOverBudget == ((3 * MAX_CHUNK_TOKENS) \div 4) + 1

\* "a a ... a. a": WordsOverBudget words, the last one a sentence of its own
LongParagraph ==
  [i \in 1..(2 * (WordsOverBudget - 1) - 1) |-> IF i % 2 = 1 THEN "a" ELSE " "]
    \o <<".", " ", "a">>

\* a document of two paragraphs, the first of them over the budget
Handbook ==
  [title |-> <<"H", "B">>, content |-> LongParagraph \o <<"\n", "\n", "a">>]

CorpusInit ==
  /\ settings = [embedding_provider |-> "stub", embedding_model_dimension |-> 1536,
                 embedding_dimension |-> COLUMN_DIMENSION,
                 llm_provider |-> "stub", openai_model |-> "gpt-4o-mini"]
  /\ redis = "connected"
  /\ store = {}
  /\ documents = {}
  /\ document_chunks = {}
  /\ ai_requests = {}
  /\ sess = [s \in Sessions |-> Idle]
  /\ nreq = 0
  /\ probe = None

\* any sequence of ingestions (of the long document and of a short one) and
\* deletions by the tenants
CorpusNext ==
  \/ \E s \in Sessions, t \in Tenants, doc \in {Handbook, LP} : start_ingest(s, t, doc)
  \/ \E s \in Sessions : ingest_store(s)
  \/ \E s \in Sessions : ingest_embed(s)
  \/ \E s \in Sessions : ingest_persist(s)
  \/ \E s \in Sessions : ingest_invalidate(s)
  \/ \E s \in Sessions, t \in Tenants,
        d \in {x.id : x \in documents} \cup {NoDocument} : start_delete(s, t, d)
  \/ \E s \in Sessions : delete_execute(s)
  \/ \E s \in Sessions : delete_invalidate(s)
  \/ \E s \in Sessions : get_db_commit(s)
  \/ \E s \in Sessions : get_db_rollback(s)

SpecCorpus == CorpusInit /\ [][CorpusNext]_vars

\* ------------------- ingestion after a change of the embedding provider

\* The application starts on a database that holds tenant tA's FAQ document,
\* ingested with the deterministic provider, under any configuration of the
\* embedding provider.
DimensionInit ==
  /\ settings \in
       { [embedding_provider |-> e[1], embedding_model_dimension |-> e[2],
          embedding_dimension |-> COLUMN_DIMENSION,
          llm_provider |-> "stub", openai_model |-> "gpt-4o-mini"] :
         e \in {<<"stub", 1536>>, <<"openai", 1536>>, <<"openai", 384>>} }
  /\ redis = "connected"
  /\ store = {}
  /\ documents = {[id |-> SeedDocument, tenant_id |-> "tA",
                   title |-> FAQ.title, content |-> FAQ.content]}
  /\ document_chunks =
       chunk_records(SeedDocument, "tA", FAQ.title,
                     chunk_text(FAQ.content, MAX_CHUNK_TOKENS),
                     StubEmbeddingProvider_embed(chunk_text(FAQ.content, MAX_CHUNK_TOKENS)))
  /\ ai_requests = {}
  /\ sess = [s \in Sessions |-> Idle]
  /\ nreq = 0
  /\ probe = None

SpecDimension == DimensionInit /\ [][CorpusNext]_vars

\* ------------------------------- chunk_text at the default budget

\* how far below the budget the long paragraphs start
BudgetSpan == 20

\* a paragraph of n one-letter words
WordsParagraph(n) == [i \in 1..(2 * n - 1) |-> IF i % 2 = 1 THEN "a" ELSE " "]

\* the first paragraphs: one word, two sentences, three words
FirstParagraphs ==
  {<<"a">>, <<"a", ".", " ", "a">>, WordsParagraph(3)}

\* the texts: a short paragraph, a paragraph of about the budget, and
\* possibly a last short one
BudgetTexts ==
  { first \o <<"\n", "\n">> \o WordsParagraph(w) \o last :
      first \in FirstParagraphs,
      w \in (WordsOverBudget - BudgetSpan)..WordsOverBudget,
      last \in {<<>>, <<"\n", "\n", "a">>} }

BudgetInit ==
  /\ Quiescent
  /\ \E text \in BudgetTexts :
       probe = [text |-> text, max_tokens |-> MAX_CHUNK_TOKENS, chunked |-> FALSE,
                chunks |-> <<>>]

\* chunk_text(content), as ingest_document calls it
chunk_at_default ==
  /\ ~probe.chunked
  /\ probe' = [probe EXCEPT !.chunked = TRUE,
                            !.chunks = chunk_text(probe.text, MAX_CHUNK_TOKENS)]
  /\ UNCHANGED <<settings, redis, store, documents, document_chunks, ai_requests,
                 sess, nreq>>

BudgetNext == chunk_at_default

SpecBudget == BudgetInit /\ [][BudgetNext]_vars

\* ------------------------------- the completion of the generation service

\* message contents that are JSON and no object: json.loads returns a list,
\* a str, a number, a bool or None
NonObjectShapes == {"array", "string", "number", "boolean", "null"}

\* the message contents: text that is no JSON, JSON that is no object, and
\* the JSON objects of Completions
MessageContents ==
  { [json |-> FALSE, shape |-> "text", answer |-> <<>>, refused |-> FALSE,
     refused_reason |-> None] }
    \cup { [json |-> TRUE, shape |-> sh, answer |-> <<>>, refused |-> FALSE,
            refused_reason |-> None] : sh \in NonObjectShapes }
    \cup { [json |-> TRUE, shape |-> "object", answer |-> c.answer,
            refused |-> c.refused, refused_reason |-> c.refused_reason] :
          c \in Completions }

\* OpenAILLMProvider.generate on the message content raw: parsed.get raises
\* AttributeError on a parsed value that is no dict
OpenAILLMProvider_generate_on(raw) ==
  IF raw.json /\ raw.shape # "object"
  THEN [ok |-> FALSE, result |-> None]
  ELSE [ok |-> TRUE, result |-> OpenAILLMProvider_parse(raw)]

ParseInit ==
  /\ settings = [embedding_provider |-> "stub", embedding_model_dimension |-> 1536,
                 embedding_dimension |-> COLUMN_DIMENSION,
                 llm_provider |-> "openai", openai_model |-> "gpt-4o-mini"]
  /\ redis = "None"
  /\ store = {}
  /\ documents = {}
  /\ document_chunks = {}
  /\ ai_requests = {}
  /\ sess = [s \in Sessions |-> Idle]
  /\ nreq = 0
  /\ \E raw \in MessageContents, question \in Questions,
        rows \in {r \in RetrievedRows : Len(r) <= 1 /\ \A i \in DOMAIN r : r[i].content = FAQ.content} :
       probe = [raw |-> raw, question |-> question, context_chunks |-> rows,
                stage |-> "called", outcome |-> None, failed |-> FALSE,
                status |-> "pending", answer |-> None]

\* llm.generate returns or raises
receive_completion ==
  /\ probe.stage = "called"
  /\ probe' = [probe EXCEPT !.stage = "generated",
                            !.outcome = OpenAILLMProvider_generate_on(probe.raw)]
  /\ UNCHANGED <<settings, redis, store, documents, document_chunks, ai_requests,
                 sess, nreq>>

\* the rest of ask_question: the status and the answer of the response, or
\* the exception that leaves the handler
finish_ask ==
  /\ probe.stage = "generated"
  /\ probe' =
       IF probe.outcome.ok
       THEN [probe EXCEPT
               !.stage = "done",
               !.status = IF probe.outcome.result.refused THEN "refused" ELSE "completed",
               !.answer = IF probe.outcome.result.answer \in {None, <<>>}
                          THEN <<>> ELSE probe.outcome.result.answer]
       ELSE [probe EXCEPT !.stage = "done", !.failed = TRUE]
  /\ UNCHANGED <<settings, redis, store, documents, document_chunks, ai_requests,
                 sess, nreq>>

ParseNext == receive_completion \/ finish_ask

SpecParse == ParseInit /\ [][ParseNext]_vars

\* ------------------------------------------------------------- properties

\* an ask that went down the miss path and has built its response
Answered(s) ==
  /\ sess[s].kind = "ask"
  /\ sess[s].pc \in {"cache_write", "returned"}
  /\ sess[s].served_from = 0

\* an ask that was served from the cache
ServedFromCache(s) ==
  sess[s].kind = "ask" /\ sess[s].pc = "returned" /\ sess[s].served_from # 0

ChunkIds(rows) == {rows[i].chunk_id : i \in DOMAIN rows}

\* C1: the rows an ask retrieves are chunks of the asking tenant (the chunks
\* the statement saw, with that tenant id), and the sources of the response
\* and of the audit row built from them name exactly those chunks.
C1_RetrievalIsTenantScoped ==
  [][\A s \in Sessions :
       /\ (sess[s].pc = "retrieve" /\ sess'[s].pc = "generate") =>
            \A i \in DOMAIN sess'[s].context_chunks :
              \E c \in visible_chunks(s) :
                /\ c.id = sess'[s].context_chunks[i].chunk_id
                /\ c.tenant_id = sess[s].tenant_id
       /\ (sess[s].pc = "audit" /\ sess'[s].pc \in {"cache_write", "returned"}) =>
            /\ ChunkIds(sess'[s].response.sources) = ChunkIds(sess[s].context_chunks)
            /\ \A r \in sess'[s].tx.requests :
                 ChunkIds(r.sources) = ChunkIds(sess[s].context_chunks)]_vars

\* C1 witness: an ask has retrieved chunks while a chunk of another tenant is
\* stored whose similarity to the question clears the threshold as well.
C1_Witness ==
  \E s \in Sessions :
    /\ sess[s].kind = "ask"
    /\ sess[s].context_chunks # <<>>
    /\ \E c \in document_chunks :
         /\ c.tenant_id # sess[s].tenant_id
         /\ cosine_similarity(c.embedding, sess[s].q_vec) > SIMILARITY_THRESHOLD

\* C2: an ask whose retrieval returned no chunk ends with status refused and a
\* refused_reason that is set, whichever generation provider is configured.
C2_EmptyContextIsRefused ==
  \A s \in Sessions :
    (Answered(s) /\ sess[s].context_chunks = <<>>) =>
      /\ sess[s].response.status = "refused"
      /\ sess[s].response.refused_reason # None

\* C3: the cache holds no payload whose status is refused, and no ask is
\* served a refused payload from it.
C3_NoRefusedPayloadCached ==
  /\ \A e \in store : e.value.status = "completed"
  /\ \A s \in Sessions : ServedFromCache(s) => sess[s].response.status = "completed"

\* C3 witness: after a refused ask was recorded, the identical ask of the same
\* tenant has missed the connected cache and is about to run the retrieval.
C3_Witness ==
  \E s \in Sessions :
    /\ redis = "connected"
    /\ sess[s].kind = "ask"
    /\ sess[s].pc = "retrieve"
    /\ ~sess[s].cache_fault
    /\ \E r \in ai_requests :
         /\ r.status = "refused"
         /\ r.tenant_id = sess[s].tenant_id
         /\ r.question = sess[s].question

\* C4: an ask that returns a payload has added exactly one audit row to its
\* transaction, and the commit that follows adds exactly that row to the log;
\* the row's cached flag is true exactly when the answer was served from the
\* cache, and the returned request_id is the row's id.
C4_OneAuditRowPerAsk ==
  [][\A s \in Sessions :
       (sess[s].kind = "ask" /\ sess[s].pc = "returned" /\ sess'[s].pc = "idle") =>
         /\ Cardinality(sess[s].tx.requests) = 1
         /\ Cardinality(ai_requests') = Cardinality(ai_requests) + 1
         /\ \A r \in ai_requests' \ ai_requests :
              /\ r \in sess[s].tx.requests
              /\ r.id = sess[s].response.request_id
              /\ r.cached = (sess[s].served_from # 0)
              /\ r.cached = sess[s].response.cached]_vars

\* C4 witness: the log holds the row of an ask served from the cache next to
\* the row of the ask that computed the answer.
C4_Witness ==
  \E r, q \in ai_requests : r.cached /\ ~q.cached /\ r.id # q.id

\* what a text is about decides whether a document answers a question
Answers(d, question) == Topic(d.content) = Topic(question)

\* C5: when the tenant has a committed document that answers the question,
\* the retrieval of a first ask returns a chunk of that document, and the
\* response built from a non-empty context names the retrieved documents in
\* its sources, is not flagged cached and, with the deterministic generation
\* provider, has status completed.
C5_AnswerableAskCompletes ==
  [][\A s \in Sessions :
       /\ (sess[s].pc = "retrieve" /\ sess'[s].pc = "generate") =>
            \A d \in documents :
              (d.tenant_id = sess[s].tenant_id /\ Answers(d, sess[s].question)) =>
                \E i \in DOMAIN sess'[s].context_chunks :
                  sess'[s].context_chunks[i].document_title = d.title
       /\ (sess[s].pc = "audit" /\ sess'[s].pc \in {"cache_write", "returned"}
             /\ sess[s].context_chunks # <<>>) =>
            /\ {sess'[s].response.sources[i].document_title :
                  i \in DOMAIN sess'[s].response.sources}
                 = {sess[s].context_chunks[i].document_title :
                      i \in DOMAIN sess[s].context_chunks}
            /\ ~sess'[s].response.cached
            /\ settings.llm_provider = "stub" =>
                 sess'[s].response.status = "completed"]_vars

\* the chunk rows an ingestion of the content writes
ChunkCount(content) == Len(chunk_text(content, MAX_CHUNK_TOKENS))

\* C6: no row an ingestion flushed is visible to another session before its
\* commit; an ingestion that raised has no document row and no chunk row in
\* the committed tables, and the rollback that follows changes no table; a
\* committed document has all of its chunks, and a committed chunk has its
\* document.
C6_IngestionIsAtomic ==
  /\ [](/\ \A s \in Sessions : \A t \in Sessions \ {s} :
             /\ sess[s].tx.docs \cap visible_documents(t) = {}
             /\ sess[s].tx.chunks \cap visible_chunks(t) = {}
        /\ \A s \in Sessions :
             (sess[s].kind = "ingest" /\ sess[s].pc = "raised") =>
               /\ \A d \in documents : d.id # sess[s].document_id
               /\ \A c \in document_chunks : c.document_id # sess[s].document_id
        /\ \A d \in documents :
             Cardinality({c \in document_chunks : c.document_id = d.id})
               = ChunkCount(d.content)
        /\ \A c \in document_chunks : \E d \in documents : d.id = c.document_id)
  /\ [][\A s \in Sessions :
          (sess[s].kind = "ingest" /\ sess[s].pc = "raised" /\ sess'[s].pc = "idle") =>
            /\ documents' = documents
            /\ document_chunks' = document_chunks]_vars

\* C6 witness: the batched embedding call of an ingestion has raised after
\* the document row was flushed.
C6_Witness ==
  \E s \in Sessions :
    /\ sess[s].kind = "ingest"
    /\ sess[s].pc = "raised"
    /\ sess[s].error = "embedding"
    /\ sess[s].tx.docs # {}

\* C7: an ingestion or a deletion returns a success only from its call of
\* invalidate_tenant, which comes after its persistence writes; when the call
\* returns, the connected cache holds no entry of the tenant, so that an ask
\* of the tenant that reads the cache next misses it.
C7_InvalidatedOnMutation ==
  [][\A s \in Sessions :
       /\ (sess[s].pc # "returned" /\ sess'[s].pc = "returned"
             /\ (sess'[s].kind = "ingest"
                   \/ (sess'[s].kind = "delete" /\ sess'[s].deleted))) =>
            /\ sess[s].pc = "invalidate"
            /\ sess[s].kind = "ingest" => sess[s].tx.chunks # {}
            /\ sess[s].kind = "delete" => sess[s].document_id \in sess[s].tx.deleted
            /\ scan_iter(store', sess[s].tenant_id) = {}
       /\ (sess[s].pc = "cache_check" /\ sess'[s].pc = "returned") =>
            scan_iter(store, sess[s].tenant_id) # {}]_vars

\* C7 witness: an ingestion has returned from invalidate_tenant after an ask
\* of the same tenant was answered and recorded, and the connected cache holds
\* no entry of the tenant.
C7_Witness ==
  \E s \in Sessions :
    /\ redis = "connected"
    /\ sess[s].kind = "ingest"
    /\ sess[s].pc = "returned"
    /\ scan_iter(store, sess[s].tenant_id) = {}
    /\ \E r \in ai_requests :
         r.tenant_id = sess[s].tenant_id /\ r.status = "completed" /\ ~r.cached

\* the two letters are the same but for their case
CasePairs == {<<"h", "H">>, <<"i", "I">>, <<"y", "Y">>, <<"o", "O">>}

SameLetter(c, d) == c = d \/ <<c, d>> \in CasePairs \/ <<d, c>> \in CasePairs

SameUpToCase(a, b) ==
  Len(a) = Len(b) /\ \A i \in 1..Len(a) : SameLetter(a[i], b[i])

\* the text from its first to its last character that is not whitespace
Core(q) ==
  LET inked == {i \in 1..Len(q) : q[i] \notin WhiteSpace}
  IN IF inked = {} THEN <<>>
     ELSE SubSeq(q, CHOOSE i \in inked : \A j \in inked : i <= j,
                    CHOOSE i \in inked : \A j \in inked : j <= i)

\* the text with every run of whitespace made a single blank
RECURSIVE Collapse(_)
Collapse(q) ==
  IF q = <<>> THEN <<>>
  ELSE IF Head(q) \in WhiteSpace
       THEN IF Len(q) > 1 /\ q[2] \in WhiteSpace
            THEN Collapse(Tail(q))
            ELSE <<" ">> \o Collapse(Tail(q))
       ELSE <<Head(q)>> \o Collapse(Tail(q))

\* C8: the keys of two questions of one tenant that differ only in letter
\* case or in leading and trailing whitespace are equal; the keys of one
\* question text under two tenants differ.
C8_KeyIgnoresCaseAndSurroundingWhitespace ==
  probe # None => (probe.derived =>
    /\ (probe.tenant_a = probe.tenant_b
          /\ SameUpToCase(Core(probe.question_a), Core(probe.question_b))) =>
         probe.key_a = probe.key_b
    /\ (probe.tenant_a # probe.tenant_b /\ probe.question_a = probe.question_b) =>
         probe.key_a # probe.key_b)

\* C8 witness: two different question texts of one tenant, one in another
\* case and with whitespace around it, have got the same key.
C8_Witness ==
  /\ probe # None
  /\ probe.derived
  /\ probe.tenant_a = probe.tenant_b
  /\ probe.question_a # probe.question_b
  /\ Len(probe.question_a) # Len(probe.question_b)
  /\ \E i \in 1..Len(probe.question_a) : probe.question_a[i] = "H"
  /\ \A i \in 1..Len(probe.question_b) : probe.question_b[i] # "H"
  /\ probe.key_a = probe.key_b

\* C8 as stated: the keys of two questions of one tenant that differ only in
\* letter case or in whitespace (here: in how many blanks stand between two
\* words) are equal; the keys of one question text under two tenants differ.
C8_KeyIgnoresCaseAndWhitespace ==
  probe # None => (probe.derived =>
    /\ (probe.tenant_a = probe.tenant_b
          /\ SameUpToCase(Collapse(Core(probe.question_a)),
                          Collapse(Core(probe.question_b)))) =>
         probe.key_a = probe.key_b
    /\ (probe.tenant_a # probe.tenant_b /\ probe.question_a = probe.question_b) =>
         probe.key_a # probe.key_b)

\* the tenant of the ask with request id w, open or committed
AskedBy(w) ==
  {sess[w].tenant_id : x \in {y \in {w} : sess[y].pc # "idle"}}
    \cup {r.tenant_id : r \in {q \in ai_requests : q.id = w}}

\* C9: the payload an ask is served from the cache was written by an ask of
\* the same tenant.
C9_CacheServesOwnTenant ==
  \A s \in Sessions :
    ServedFromCache(s) =>
      /\ sess[s].served_from \in Sessions
      /\ AskedBy(sess[s].served_from) = {sess[s].tenant_id}

\* C9 witness: an ask has read the cache without a fault and missed it while
\* the cache holds another tenant's entry for the same question digest.
C9_Witness ==
  \E s \in Sessions :
    /\ sess[s].kind = "ask"
    /\ sess[s].pc = "retrieve"
    /\ ~sess[s].cache_fault
    /\ \E e \in store :
         /\ e.key.tenant # sess[s].tenant_id
         /\ e.key.q_hash = cache_key(sess[s].tenant_id, sess[s].question).q_hash

\* the response the miss path builds from what was retrieved and generated
MissResponse(s) ==
  [status |-> IF sess[s].llm_result.refused THEN "refused" ELSE "completed",
   answer |-> IF sess[s].llm_result.answer \in {None, <<>>}
              THEN <<>> ELSE sess[s].llm_result.answer,
   sources |-> build_sources(sess[s].context_chunks)]

\* C10: no ask ends with an exception of the cache; an ask whose cache read or
\* write failed, or whose cache client is unset, is not served from the cache
\* and returns the status, answer and sources that its own retrieval and
\* generation give.
C10_CacheFaultsDegradeToMiss ==
  \A s \in Sessions :
    sess[s].kind = "ask" =>
      /\ sess[s].error # "cache"
      /\ (sess[s].cache_fault \/ redis = "None") => sess[s].served_from = 0
      /\ ((sess[s].cache_fault \/ redis = "None")
            /\ sess[s].pc \in {"cache_write", "returned"}) =>
           /\ sess[s].response.status = MissResponse(s).status
           /\ sess[s].response.answer = MissResponse(s).answer
           /\ sess[s].response.sources = MissResponse(s).sources
           /\ ~sess[s].response.cached

\* C10 witness: the cache read of an ask has failed while the cache holds an
\* entry under its key, and the ask has built a completed response.
C10_Witness ==
  \E s \in Sessions :
    /\ sess[s].kind = "ask"
    /\ sess[s].pc = "cache_write"
    /\ sess[s].cache_fault
    /\ sess[s].response.status = "completed"
    /\ \E e \in store : e.key = cache_key(sess[s].tenant_id, sess[s].question)

\* C11: no failure of a cache operation surfaces to the caller: no request,
\* the ingestions and deletions with their invalidate_tenant call included,
\* ends with an exception of the cache.
C11_CacheFailureNeverSurfaces ==
  \A s \in Sessions : sess[s].error # "cache"

\* the failures of the steps of an ask before its audit row
AskFailures == {"embedding", "retrieval", "generation"}

AllRequests == ai_requests \cup UNION {sess[s].tx.requests : s \in Sessions}

\* C13: every request record has status completed or refused; a record with
\* status refused has a null answer; a record with cached = true has status
\* completed.
C13_RequestRecordStatus ==
  \A r \in AllRequests :
    /\ r.status \in {"completed", "refused"}
    /\ r.status = "refused" => r.answer = None
    /\ r.cached => r.status = "completed"

\* C13 witness: the log holds the record of a refused ask, its answer null,
\* next to the record of a completed one.
C13_Witness ==
  \E r, q \in ai_requests :
    /\ r.status = "refused"
    /\ r.answer = None
    /\ q.status = "completed"
    /\ q.answer # None

\* C14: every response of an ask with status refused carries a refused_reason
\* that is set and not empty, and an empty answer, whichever generation
\* provider produced the refusal.
C14_RefusalCarriesReason ==
  \A s \in Sessions :
    (sess[s].kind = "ask" /\ sess[s].pc \in {"cache_write", "returned"}
       /\ sess[s].response.status = "refused") =>
      /\ sess[s].response.refused_reason # None
      /\ sess[s].response.refused_reason # Str("")
      /\ sess[s].response.answer = <<>>

\* the tenant ids on the rows of the tables, flushed or committed, and on the
\* keys of the cache
RowTenants ==
  {d.tenant_id : d \in documents} \cup {c.tenant_id : c \in document_chunks}
    \cup {r.tenant_id : r \in ai_requests} \cup {e.key.tenant : e \in store}
    \cup UNION {{x.tenant_id : x \in sess[s].tx.docs \cup sess[s].tx.chunks
                                      \cup sess[s].tx.requests} : s \in Sessions}

\* C15: a request with an unknown or inactive tenant id runs no step of a
\* pipeline: it is rejected on arrival with nothing flushed, and goes on only
\* to the rollback; its arrival and its rollback leave the tables and the
\* cache as they were, and no row and no cache key carries its tenant id.
C15_UnknownTenantRejected ==
  /\ [](/\ RowTenants \subseteq Tenants
        /\ \A s \in Sessions :
             sess[s].tenant_id = UnknownTenant =>
               /\ sess[s].pc = "raised"
               /\ sess[s].error = "tenant"
               /\ sess[s].tx = NoTx)
  /\ [][\A s \in Sessions :
          (sess[s].tenant_id = UnknownTenant \/ sess'[s].tenant_id = UnknownTenant) =>
            /\ store' = store
            /\ documents' = documents
            /\ document_chunks' = document_chunks
            /\ ai_requests' = ai_requests]_vars

\* C15 witness: a request of an unknown tenant has been rejected while the
\* cache and the tables hold the entries and rows of an active tenant.
C15_Witness ==
  \E s \in Sessions :
    /\ sess[s].tenant_id = UnknownTenant
    /\ sess[s].error = "tenant"
    /\ store # {}
    /\ documents # {}
    /\ ai_requests # {}

\* the chunks of the asking tenant whose similarity to the query vector is
\* strictly greater than the threshold
Qualifying ==
  {c \in probe.chunks :
     /\ c.tenant_id = probe.tenant_id
     /\ cosine_similarity(c.embedding, probe.q_vec) > SIMILARITY_THRESHOLD}

Returned == {probe.rows[i].chunk_id : i \in DOMAIN probe.rows}

\* C16: the search returns chunks of the tenant whose similarity is strictly
\* greater than the threshold, each once and with its similarity; it returns
\* all of them up to TOP_K, the most similar ones, in descending order of
\* similarity; a chunk at the threshold is not returned, and the result is
\* empty when no chunk qualifies.
C16_RetrievalContract ==
  probe # None => ("searched" \in DOMAIN probe => (probe.searched =>
    /\ Len(probe.rows) = Min(Cardinality(Qualifying), TOP_K)
    /\ \A i \in DOMAIN probe.rows :
         \E c \in Qualifying :
           /\ c.id = probe.rows[i].chunk_id
           /\ probe.rows[i].similarity = cosine_similarity(c.embedding, probe.q_vec)
    /\ \A i, j \in DOMAIN probe.rows :
         i < j => /\ probe.rows[i].chunk_id # probe.rows[j].chunk_id
                  /\ probe.rows[i].similarity >= probe.rows[j].similarity
    /\ \A c \in Qualifying :
         c.id \notin Returned =>
           \A i \in DOMAIN probe.rows :
             cosine_similarity(c.embedding, probe.q_vec) <= probe.rows[i].similarity
    /\ \A c \in probe.chunks :
         cosine_similarity(c.embedding, probe.q_vec) = SIMILARITY_THRESHOLD =>
           c.id \notin Returned
    /\ Qualifying = {} => probe.rows = <<>>))

\* C16 witness: the search has run on a corpus in which more than TOP_K chunks
\* of the tenant qualify, one more chunk of the tenant is at the threshold and
\* another tenant's chunk is above it.
C16_Witness ==
  /\ probe # None
  /\ "searched" \in DOMAIN probe
  /\ probe.searched
  /\ Cardinality(Qualifying) > TOP_K
  /\ Len(probe.rows) = TOP_K
  /\ \E c \in probe.chunks :
       /\ c.tenant_id = probe.tenant_id
       /\ cosine_similarity(c.embedding, probe.q_vec) = SIMILARITY_THRESHOLD

\* C17: chunks of exactly equal similarity are returned in the order of their
\* chunk ids, and of such chunks the cap keeps those of the lower ids.
C17_TiesOrderedByChunkId ==
  probe # None => ("searched" \in DOMAIN probe => (probe.searched =>
    /\ \A i, j \in DOMAIN probe.rows :
         (i < j /\ probe.rows[i].similarity = probe.rows[j].similarity) =>
           probe.rows[i].chunk_id.n < probe.rows[j].chunk_id.n
    /\ \A c \in Qualifying :
         c.id \notin Returned =>
           \A i \in DOMAIN probe.rows :
             probe.rows[i].similarity = cosine_similarity(c.embedding, probe.q_vec) =>
               probe.rows[i].chunk_id.n < c.id.n))

\* the parts of a text between its blank lines (two newlines in a row)
RECURSIVE Pieces(_)
Pieces(t) ==
  LET breaks == {i \in 1..(Len(t) - 1) : t[i] = "\n" /\ t[i + 1] = "\n"}
  IN IF breaks = {} THEN <<t>>
     ELSE LET i == CHOOSE x \in breaks : \A y \in breaks : x <= y
          IN <<SubSeq(t, 1, i - 1)>> \o Pieces(SubSeq(t, i + 2, Len(t)))

IsBlank(t) == \A i \in 1..Len(t) : t[i] \in WhiteSpace

\* the non-blank paragraphs of a text, each without its surrounding whitespace
InputParagraphs(t) ==
  SelectSeq([i \in 1..Len(Pieces(t)) |-> strip(Pieces(t)[i])],
            LAMBDA x : x # <<>>)

\* the paragraphs of chunk k once the overlap sentence prepended to a chunk
\* after the first is ignored
ChunkBody(chunks, k) ==
  IF k = 1 THEN Pieces(chunks[k]) ELSE Tail(Pieces(chunks[k]))

RECURSIVE ChunkBodies(_, _)
ChunkBodies(chunks, k) ==
  IF k > Len(chunks) THEN <<>>
  ELSE ChunkBody(chunks, k) \o ChunkBodies(chunks, k + 1)

\* C18: the chunks of a text, once the overlap sentence prepended to each
\* chunk after the first is ignored, are the non-blank paragraphs of the text,
\* each once and in the original order; chunking the text again gives the
\* same chunks.
C18_ChunksReconstructParagraphs ==
  probe # None => ("chunked" \in DOMAIN probe => (probe.chunked =>
    /\ ChunkBodies(probe.chunks, 1) = InputParagraphs(probe.text)
    /\ probe.chunks = chunk_text(probe.text, probe.max_tokens)))

\* C18 witness: a text of two paragraphs has been cut into two chunks, the
\* second one opening with the last sentence of the first, which is a part of
\* its paragraph only.
C18_Witness ==
  /\ probe # None
  /\ "chunked" \in DOMAIN probe
  /\ probe.chunked
  /\ Len(probe.chunks) = 2
  /\ Len(Pieces(probe.chunks[2])) = 2
  /\ Head(Pieces(probe.chunks[2])) # probe.chunks[1]
  /\ Head(Pieces(probe.chunks[2])) = LastSentence(probe.chunks[1])

\* C19: an empty or whitespace-only text has no chunk; any other text has at
\* least one chunk and no chunk that is empty or whitespace-only; a text of a
\* single paragraph has that paragraph as its only chunk, whatever the budget.
C19_NoBlankChunk ==
  probe # None => ("chunked" \in DOMAIN probe => (probe.chunked =>
    /\ IsBlank(probe.text) => probe.chunks = <<>>
    /\ ~IsBlank(probe.text) =>
         /\ probe.chunks # <<>>
         /\ \A k \in DOMAIN probe.chunks : ~IsBlank(probe.chunks[k])
    /\ Len(InputParagraphs(probe.text)) = 1 =>
         probe.chunks = InputParagraphs(probe.text)))

\* C19 witness: a single paragraph that alone exceeds the budget has been
\* emitted whole as the only chunk.
C19_Witness ==
  /\ probe # None
  /\ "chunked" \in DOMAIN probe
  /\ probe.chunked
  /\ Len(InputParagraphs(probe.text)) = 1
  /\ estimate_tokens(InputParagraphs(probe.text)[1]) > probe.max_tokens
  /\ probe.chunks = <<InputParagraphs(probe.text)[1]>>

ChunksOf(d) == {c \in document_chunks : c.document_id = d.id}

\* C20: the chunk_index values of the chunks of each committed document are
\* 0, 1, ..., n-1, each once, n being the number of its chunks.
C20_ChunkOrdinalsContiguous ==
  \A d \in documents :
    /\ {c.chunk_index : c \in ChunksOf(d)} = 0..(Cardinality(ChunksOf(d)) - 1)
    /\ \A c1, c2 \in ChunksOf(d) : c1.chunk_index = c2.chunk_index => c1 = c2

\* C20 witness: a document of two chunks is committed next to a document of
\* one chunk.
C20_Witness ==
  \E d1, d2 \in documents :
    /\ Cardinality(ChunksOf(d1)) = 2
    /\ Cardinality(ChunksOf(d2)) = 1

\* a deletion that found its document: delete_document returns True
DeletedBy(s) ==
  sess[s].kind = "delete" /\ sess[s].pc = "returned" /\ sess[s].deleted

C22_AuditLogAppendOnly ==
  [][\A r \in ai_requests :
       /\ r \in ai_requests'
       /\ \A q \in ai_requests' : q.id = r.id => q = r]_vars

\* C22 witness: the log holds the record of an ask of a tenant, and a later
\* ingestion of that tenant has committed its document.
C22_Witness ==
  \E r \in ai_requests :
    \E d \in documents : d.tenant_id = r.tenant_id /\ d.id \in Sessions /\ d.id > r.id

\* C23: the deterministic provider returns one vector per text of the batch,
\* the i-th being the vector of the i-th text embedded alone, each of the
\* configured dimension; equal texts, in one batch or in two, get equal
\* vectors.
C23_StubEmbeddingDeterministic ==
  probe.embedded =>
    /\ Len(probe.vectors) = Len(probe.texts)
    /\ \A i \in DOMAIN probe.vectors :
         /\ probe.vectors[i].dim = settings.embedding_dimension
         /\ probe.vectors[i] = StubEmbeddingProvider_embed(<<probe.texts[i]>>)[1]
    /\ \A i, j \in DOMAIN probe.texts :
         probe.texts[i] = probe.texts[j] => probe.vectors[i] = probe.vectors[j]
    /\ \A i \in DOMAIN probe.texts : \A j \in DOMAIN probe.texts_again :
         probe.texts[i] = probe.texts_again[j] =>
           probe.vectors[i] = probe.vectors_again[j]

\* C23 witness: a text was embedded second in one batch and first in another,
\* after a different text in the first batch.
C23_Witness ==
  /\ probe.embedded
  /\ Len(probe.texts) = 2
  /\ Len(probe.texts_again) = 2
  /\ probe.texts[1] # probe.texts[2]
  /\ probe.texts[2] = probe.texts_again[1]

\* the steps of ask_question: the positions an ask moves between
AskSteps ==
  { <<"idle", "cache_check">>,
    <<"cache_check", "returned">>, <<"cache_check", "embed">>,
    <<"embed", "retrieve">>, <<"retrieve", "generate">>, <<"generate", "audit">>,
    <<"audit", "cache_write">>, <<"audit", "returned">>,
    <<"cache_write", "returned">>,
    <<"embed", "raised">>, <<"retrieve", "raised">>, <<"generate", "raised">>,
    <<"returned", "idle">>, <<"raised", "idle">> }

\* the request records an ask has flushed: none, or its own one
AuditWritten(s) ==
  /\ Cardinality(sess[s].tx.requests) = 1
  /\ \A r \in sess[s].tx.requests : r.id = sess[s].id

\* C24: an ask moves along the steps of one of the two sequences only.  On a
\* hit it goes from the cache check to its return with its audit record
\* flushed and without a query vector, a retrieval or a generation result.
\* On a miss it has a query vector before it retrieves, both before it
\* generates, a generation result before the audit write and no audit record
\* before it; it reaches the cache write only with its audit record flushed,
\* and an entry of the cache names a request whose record is flushed or
\* committed.
C24_AskStepSequences ==
  /\ [](/\ \A s \in Sessions :
             sess[s].kind = "ask" =>
               /\ sess[s].pc \in {"cache_check", "embed"} =>
                    sess[s].q_vec = None
               /\ sess[s].pc \in {"retrieve", "generate", "audit", "cache_write"} =>
                    sess[s].q_vec # None
               /\ sess[s].pc \in {"cache_check", "embed", "retrieve"} =>
                    sess[s].context_chunks = <<>>
               /\ sess[s].pc \in {"cache_check", "embed", "retrieve", "generate"} =>
                    sess[s].llm_result = None
               /\ sess[s].pc \in {"audit", "cache_write"} =>
                    sess[s].llm_result # None
               /\ sess[s].pc \in {"cache_check", "embed", "retrieve", "generate",
                                  "audit", "raised"} =>
                    sess[s].tx.requests = {} /\ sess[s].response = None
               /\ sess[s].pc \in {"cache_write", "returned"} => AuditWritten(s)
               /\ ServedFromCache(s) =>
                    /\ sess[s].q_vec = None
                    /\ sess[s].context_chunks = <<>>
                    /\ sess[s].llm_result = None
               /\ (sess[s].pc = "returned" /\ sess[s].served_from = 0) =>
                    sess[s].llm_result # None
        /\ \A e \in store : \E r \in AllRequests : r.id = e.value.request_id)
  /\ [][\A s \in Sessions :
          (sess[s].kind = "ask" \/ sess'[s].kind = "ask") =>
            /\ sess'[s].pc # sess[s].pc => <<sess[s].pc, sess'[s].pc>> \in AskSteps
            /\ \A e \in store' \ store :
                 e.value.request_id = s => sess[s].pc = "cache_write"]_vars

\* C24 witness: an ask served from the cache has returned while the ask that
\* went down the miss path and wrote the entry has not yet committed.
C24_Witness ==
  \E s, t \in Sessions :
    /\ ServedFromCache(s)
    /\ sess[s].served_from = t
    /\ sess[t].kind = "ask"
    /\ sess[t].pc = "returned"
    /\ sess[t].served_from = 0

\* the vector the configured provider gives a question
QueryVector(question) ==
  IF settings.embedding_provider = "openai"
  THEN OpenAIEmbeddingProvider_embed(<<question>>)[1]
  ELSE StubEmbeddingProvider_embed(<<question>>)[1]

\* an ingestion or deletion of the tenant is under way: not yet committed
Mutating(tenant_id) ==
  \E s \in Sessions :
    sess[s].kind \in {"ingest", "delete"} /\ sess[s].tenant_id = tenant_id

\* C25: when no ingestion or deletion of a tenant is under way (all of them
\* have completed and committed), every cache entry of the tenant holds the
\* sources of a retrieval on the committed corpus as it is: no entry computed
\* from the corpus as it was before a committed change is in the cache.
C25_NoStaleEntryAfterCommit ==
  \A e \in store :
    ~Mutating(e.key.tenant) =>
      \E rows \in search_results(documents, document_chunks, e.key.tenant,
                                 QueryVector(e.value.question)) :
        e.value.sources = build_sources(rows)

\* the cache key of the ask of session s
KeyOf(s) == cache_key(sess[s].tenant_id, sess[s].question)

\* C26: two asks of a tenant under one cache key that both went down the miss
\* path each have their own request record, with cached = false, whether or
\* not the other has written the key by then; a cache write that succeeds
\* leaves the key with the payload of the ask that made it, whatever the key
\* held before; a key has at most one entry.
C26_ConcurrentMissesLastWriterWins ==
  /\ [](/\ \A s, t \in Sessions :
             (s # t /\ Answered(s) /\ Answered(t) /\ KeyOf(s) = KeyOf(t)) =>
               /\ AuditWritten(s) /\ AuditWritten(t)
               /\ \A r \in sess[s].tx.requests \cup sess[t].tx.requests : ~r.cached
               /\ sess[s].response.request_id # sess[t].response.request_id
        /\ \A e, f \in store : e.key = f.key => e = f)
  /\ [][\A s \in Sessions :
          (sess[s].pc = "cache_write" /\ sess'[s].pc = "returned"
             /\ redis = "connected" /\ ~sess'[s].cache_fault) =>
            [key |-> KeyOf(s), value |-> sess[s].response] \in store']_vars

\* C26 witness: the second of two asks of a tenant under one key is about to
\* write the cache; both missed it, and the key holds the payload of the
\* first.
C26_Witness ==
  \E s, t \in Sessions :
    /\ s # t
    /\ Answered(s) /\ sess[s].pc = "returned" /\ ~sess[s].cache_fault
    /\ Answered(t) /\ sess[t].pc = "cache_write" /\ ~sess[t].cache_fault
    /\ KeyOf(s) = KeyOf(t)
    /\ [key |-> KeyOf(s), value |-> sess[s].response] \in store

\* the responses the miss path of ask s can build on the corpus as s sees it
MissOutcomes(s) ==
  LET r == sess[s]
      rowsets == IF dimension_conflict(visible_chunks(s), r.tenant_id,
                                       QueryVector(r.question))
                 THEN {}
                 ELSE search_results(visible_documents(s), visible_chunks(s),
                                     r.tenant_id, QueryVector(r.question))
  IN UNION { { [status |-> IF g.result.refused THEN "refused" ELSE "completed",
                answer |-> IF g.result.answer \in {None, <<>>}
                           THEN <<>> ELSE g.result.answer,
                sources |-> build_sources(rows)] :
               g \in {x \in generate(r.question, rows) : x.ok} } :
             rows \in rowsets }

\* C27: with one request at a time, an ask served from the cache returns a
\* status, an answer and sources that the miss path can compute for its
\* tenant and its question text on the current corpus.
C27_CacheHitEqualsMissPath ==
  \A s \in Sessions :
    ServedFromCache(s) =>
      [status |-> sess[s].response.status,
       answer |-> sess[s].response.answer,
       sources |-> sess[s].response.sources] \in MissOutcomes(s)

\* C28: the payload an ask returns on a cache hit has cached = true and the id
\* of the request record this ask has flushed, which is not the request_id of
\* the stored payload; its answer, sources, status and token_usage are those
\* of the payload stored under its key.
C28_HitPayloadRederived ==
  [][\A s \in Sessions :
       (sess[s].pc = "cache_check" /\ sess'[s].pc = "returned") =>
         \E e \in store :
           /\ e.key = KeyOf(s)
           /\ sess'[s].response.cached
           /\ ~e.value.cached
           /\ sess'[s].response.request_id # e.value.request_id
           /\ \E r \in sess'[s].tx.requests :
                /\ r.id = sess'[s].response.request_id
                /\ r.id = s
                /\ r.cached
           /\ sess'[s].response.answer = e.value.answer
           /\ sess'[s].response.sources = e.value.sources
           /\ sess'[s].response.status = e.value.status
           /\ sess'[s].response.token_usage = e.value.token_usage]_vars

\* C28 witness: an ask has returned a payload from the cache whose token
\* usage is not zero, while the record it flushed counts no tokens.
C28_Witness ==
  \E s \in Sessions :
    /\ ServedFromCache(s)
    /\ sess[s].response.cached
    /\ sess[s].response.token_usage.total_tokens > 0
    /\ \E r \in sess[s].tx.requests : r.total_tokens = 0

\* C29: the question of the response of an ask is the question text the ask
\* was given, and the question of the request record the ask flushed, on a
\* cache hit as on a miss.
C29_ResponseEchoesQuestion ==
  \A s \in Sessions :
    (sess[s].kind = "ask" /\ sess[s].pc \in {"cache_write", "returned"}) =>
      /\ sess[s].response.question = sess[s].question
      /\ \A r \in sess[s].tx.requests : r.question = sess[s].response.question

\* C30: the generation provider is given the retrieved rows in their order
\* (the deterministic provider quotes the first of them in that order); the
\* sources of the response and of the request record have one entry per
\* retrieved row, in that order and TOP_K at most, with the row's chunk id
\* and title, and as excerpt the first EXCERPT_CHARS characters of the row's
\* content, or all of a shorter content.
C30_SourcesFollowRetrieval ==
  probe.built =>
    /\ probe.context_chunks = probe.rows
    /\ probe.rows # <<>> =>
         /\ Len(probe.llm_result.answer.excerpts) = Min(Len(probe.rows), STUB_EXCERPTS)
         /\ \A i \in DOMAIN probe.llm_result.answer.excerpts :
              probe.llm_result.answer.excerpts[i]
                = Prefix(probe.rows[i].content, STUB_EXCERPT_CHARS)
    /\ Len(probe.sources) = Len(probe.rows)
    /\ Len(probe.sources) <= TOP_K
    /\ probe.ai_req.sources = probe.sources
    /\ probe.response_sources = probe.sources
    /\ \A i \in DOMAIN probe.rows :
         LET src == probe.sources[i]
             row == probe.rows[i]
         IN /\ src.chunk_id = row.chunk_id
            /\ src.document_title = row.document_title
            /\ Len(src.excerpt) = Min(Len(row.content), EXCERPT_CHARS)
            /\ \A k \in DOMAIN src.excerpt : src.excerpt[k] = row.content[k]

\* C30 witness: TOP_K rows were retrieved, a content longer than the excerpt
\* length before a short one, and the sources are built.
C30_Witness ==
  /\ probe.built
  /\ Len(probe.rows) = TOP_K
  /\ Len(probe.rows[1].content) > EXCERPT_CHARS
  /\ Len(probe.rows[2].content) < EXCERPT_CHARS
  /\ Len(probe.sources[1].excerpt) = EXCERPT_CHARS

\* C31: a chunk whose estimated token count (the token_count persisted with
\* it) is above the budget of MAX_CHUNK_TOKENS consists of a single paragraph
\* of the text; every other chunk, one that starts with a carried-over
\* sentence included, is within the budget.
C31_ChunksWithinBudget ==
  probe.chunked =>
    \A k \in DOMAIN probe.chunks :
      estimate_tokens(probe.chunks[k]) > MAX_CHUNK_TOKENS =>
        probe.chunks[k] \in Range(Paragraphs(probe.text))

\* a sentence boundary of p at position j: a sentence-ending character with
\* whitespace after it
Boundary(p, j) ==
  j < Len(p) /\ p[j] \in SentenceEnd /\ p[j + 1] \in WhiteSpace

\* o is the last sentence of the paragraph p: the end of p from the character
\* after its last sentence boundary and the whitespace that follows it, or
\* all of p when p has no boundary
IsLastSentence(o, p) ==
  /\ o # <<>>
  /\ Len(o) <= Len(p)
  /\ o = SubSeq(p, Len(p) - Len(o) + 1, Len(p))
  /\ \A j \in 1..Len(o) : ~Boundary(o, j)
  /\ o[1] \notin WhiteSpace
  /\ \/ o = p
     \/ \E j \in 1..(Len(p) - Len(o) - 1) :
          /\ p[j] \in SentenceEnd
          /\ \A m \in (j + 1)..(Len(p) - Len(o)) : p[m] \in WhiteSpace

RECURSIVE SumTokens(_)
SumTokens(parts) ==
  IF parts = <<>> THEN 0 ELSE estimate_tokens(Head(parts)) + SumTokens(Tail(parts))

\* current_tokens when chunk k was closed: the estimate of the seed of overlap
\* and paragraph, plus the estimates of the paragraphs added after it
RunningTokens(chunks, k) ==
  LET parts == Pieces(chunks[k])
  IN IF k = 1 THEN SumTokens(parts)
     ELSE estimate_tokens(JoinParagraphs(SubSeq(parts, 1, 2)))
            + SumTokens(SubSeq(parts, 3, Len(parts)))

\* the paragraphs of the text placed in the chunks before chunk k
PlacedBefore(chunks, k) ==
  Len(ChunkBodies(SubSeq(chunks, 1, k - 1), 1))

\* C32: the first chunk consists of the first paragraphs of the text, with
\* nothing before them; every later chunk was opened because the paragraph
\* that comes next in the text, added to the running chunk, would exceed the
\* budget, and it begins with the last sentence of the last paragraph of the
\* chunk before it, followed by that paragraph.
C32_OverlapSeedsNextChunk ==
  (probe.chunked /\ probe.chunks # <<>>) =>
    LET paragraphs == InputParagraphs(probe.text)
    IN /\ \A i \in DOMAIN Pieces(probe.chunks[1]) :
            Pieces(probe.chunks[1])[i] = paragraphs[i]
       /\ \A k \in 2..Len(probe.chunks) :
            LET closed == Pieces(probe.chunks[k - 1])
                opened == Pieces(probe.chunks[k])
                trigger == paragraphs[PlacedBefore(probe.chunks, k) + 1]
            IN /\ Len(opened) >= 2
               /\ IsLastSentence(opened[1], closed[Len(closed)])
               /\ opened[2] = trigger
               /\ RunningTokens(probe.chunks, k - 1) + estimate_tokens(trigger)
                    > probe.max_tokens

\* C32 witness: a chunk was closed whose last paragraph has two sentences,
\* and the next chunk opens with the second of them and goes on with the
\* paragraph that overflowed.
C32_Witness ==
  /\ probe.chunked
  /\ \E k \in 2..Len(probe.chunks) :
       LET closed == Pieces(probe.chunks[k - 1])
           opened == Pieces(probe.chunks[k])
       IN /\ \E j \in 1..Len(closed[Len(closed)]) : Boundary(closed[Len(closed)], j)
          /\ Len(opened[1]) < Len(closed[Len(closed)])
          /\ Len(opened) = 2

\* C33: an ask whose generation service returned a message content that is
\* not a JSON object, whatever else it is, does not fail: it completes, with
\* the raw content as its answer.
C33_MalformedOutputPassesThrough ==
  (probe.stage = "done" /\ probe.raw.shape # "object") =>
    /\ ~probe.failed
    /\ probe.status = "completed"
    /\ probe.answer = [type |-> "raw_text"]

\* the chunk rows committed or flushed
AllChunks == document_chunks \cup UNION {sess[s].tx.chunks : s \in Sessions}

\* the vectors of ingestion s are not of the dimension of the tenant's corpus
DimensionMismatch(s) ==
  /\ sess[s].kind = "ingest"
  /\ \E i \in DOMAIN sess[s].embeddings :
       \E c \in document_chunks :
         /\ c.tenant_id = sess[s].tenant_id
         /\ c.embedding.dim # sess[s].embeddings[i].dim

\* C34: an ingestion whose vectors are not of the dimension of the tenant's
\* stored vectors gets no further than its flush of the chunks, which raises:
\* it has flushed no chunk row, and the tables hold no document and no chunk
\* of it; the stored vectors of a tenant are all of one dimension.
C34_DimensionMismatchFails ==
  /\ \A s \in Sessions :
       DimensionMismatch(s) =>
         /\ sess[s].pc \in {"persist", "raised"}
         /\ sess[s].pc = "raised" => sess[s].error = "persistence"
         /\ sess[s].tx.chunks = {}
         /\ \A d \in documents : d.id # sess[s].document_id
         /\ \A c \in document_chunks : c.document_id # sess[s].document_id
  /\ \A c1, c2 \in AllChunks :
       c1.tenant_id = c2.tenant_id => c1.embedding.dim = c2.embedding.dim

\* C34 witness: the flush of the chunks of an ingestion has raised on vectors
\* that are not of the dimension of the vectors the tenant has stored.
C34_Witness ==
  \E s \in Sessions :
    /\ DimensionMismatch(s)
    /\ sess[s].pc = "raised"
    /\ sess[s].error = "persistence"
    /\ sess[s].tx.docs # {}

\* the documents, the chunks and the cache entries of a tenant
RowsOf(tenant_id, docs, chunks, entries) ==
  [documents |-> {d \in docs : d.tenant_id = tenant_id},
   chunks    |-> {c \in chunks : c.tenant_id = tenant_id},
   entries   |-> {e \in entries : e.key.tenant = tenant_id}]

\* deletion s names a document that another tenant holds
CrossTenantDelete(s) ==
  /\ sess[s].kind = "delete"
  /\ \E d \in documents :
       d.id = sess[s].document_id /\ d.tenant_id # sess[s].tenant_id

\* C35: no step of an ingestion or of a deletion of one tenant, its commit
\* and its rollback included, changes the documents, the chunks or the cache
\* entries of another tenant; a deletion that names a document of another
\* tenant deletes no row, goes to no invalidation and returns False.
C35_OtherTenantsUntouched ==
  /\ [][\A s \in Sessions :
          (sess[s].kind \in {"ingest", "delete"} /\ sess'[s] # sess[s]) =>
            \A b \in Tenants \ {sess[s].tenant_id} :
              RowsOf(b, documents', document_chunks', store')
                = RowsOf(b, documents, document_chunks, store)]_vars
  /\ [](\A s \in Sessions :
          CrossTenantDelete(s) =>
            /\ sess[s].pc \in {"execute", "returned"}
            /\ sess[s].tx.deleted = {}
            /\ ~sess[s].deleted)

\* C35 witness: tenant tB's deletion of tenant tA's document has returned
\* False while the store holds a cached answer of tA.
C35_Witness ==
  \E s \in Sessions :
    /\ CrossTenantDelete(s)
    /\ sess[s].pc = "returned"
    /\ ~sess[s].deleted
    /\ \E e \in store : e.key.tenant # sess[s].tenant_id
    /\ \E c \in document_chunks : c.document_id = sess[s].document_id

====
